---------------------------- MODULE Spec2Model ----------------------------
(***************************************************************************)
(* Substitute Soccer (soccer-master/soccer.py): the match simulation.      *)
(*                                                                         *)
(* Coordinates, speeds and velocities are floats in the program.  Here     *)
(* they are fixed-point integers: one pixel is SCALE units, so every speed *)
(* constant of the program is an exact integer.  Unit vectors carry three  *)
(* decimals (UNIT = 1.0).  Divisions truncate toward zero.  Comparisons of *)
(* a distance with a radius are made on the squares and are exact.         *)
(***************************************************************************)
EXTENDS Integers, Sequences, FiniteSets, TLC

SCALE == 20
UNIT == 1000

(***************************************************************************)
(* Arithmetic                                                              *)
(***************************************************************************)
Abs(a) == IF a < 0 THEN -a ELSE a
Sgn(a) == IF a < 0 THEN -1 ELSE IF a > 0 THEN 1 ELSE 0
Min2(a, b) == IF a < b THEN a ELSE b
Max2(a, b) == IF a > b THEN a ELSE b
\* float division, truncated toward zero on the fixed-point grid
Quot(a, b) == Sgn(a) * Sgn(b) * (Abs(a) \div Abs(b))

\* floor of the square root of 0 <= n < 2^31, by Newton's iteration from a
\* power of two above the root: the iterates decrease to the floor and stay
SqrtGuess(n) ==
    IF n < 65536
    THEN IF n < 256
         THEN IF n < 16 THEN (IF n < 4 THEN 2 ELSE 4) ELSE (IF n < 64 THEN 8 ELSE 16)
         ELSE IF n < 4096 THEN (IF n < 1024 THEN 32 ELSE 64)
              ELSE (IF n < 16384 THEN 128 ELSE 256)
    ELSE IF n < 16777216
         THEN IF n < 1048576 THEN (IF n < 262144 THEN 512 ELSE 1024)
              ELSE (IF n < 4194304 THEN 2048 ELSE 4096)
         ELSE IF n < 268435456 THEN (IF n < 67108864 THEN 8192 ELSE 16384)
              ELSE (IF n < 1073741824 THEN 32768 ELSE 65536)
\* Newton's iteration downward from x, which is not below the root of n
RECURSIVE Newton(_, _)
Newton(x, n) ==
    IF (x + n \div x) \div 2 >= x THEN x ELSE Newton((x + n \div x) \div 2, n)
Sqrt(n) == IF n = 0 THEN 0 ELSE Newton(SqrtGuess(n), n)

\* Vector2.length(); large vectors are measured at a quarter of the
\* resolution so that the squares stay inside 32 bits
LengthAt(v, q) ==
    q * Sqrt((v[1] \div q) * (v[1] \div q) + (v[2] \div q) * (v[2] \div q))
Length(v) == LengthAt(v, IF Abs(v[1]) < 32000 /\ Abs(v[2]) < 32000 THEN 1 ELSE 4)

\* v.length() > r and v.length() <= r for a radius 0 <= r < 46340, exact
LongerThan(v, r) ==
    Abs(v[1]) > r \/ Abs(v[2]) > r \/ v[1] * v[1] + v[2] * v[2] > r * r
Within(v, r) == ~LongerThan(v, r)
\* v.length() < r, exact
ShorterThan(v, r) ==
    Abs(v[1]) < r /\ Abs(v[2]) < r /\ v[1] * v[1] + v[2] * v[2] < r * r

VAdd(a, b) == <<a[1] + b[1], a[2] + b[2]>>
VSub(a, b) == <<a[1] - b[1], a[2] - b[2]>>
\* unit vector (in UNIT) times a length
VScale(u, k) == <<Quot(u[1] * k, UNIT), Quot(u[2] * k, UNIT)>>
\* dot product of two unit vectors, in UNIT
Dot(u, w) == Quot(u[1] * w[1] + u[2] * w[2], UNIT)

(***************************************************************************)
(* Geometry                                                                *)
(***************************************************************************)
LEVEL_W == 1000 * SCALE
LEVEL_H == 1400 * SCALE
HALF_LEVEL_W == LEVEL_W \div 2
HALF_LEVEL_H == LEVEL_H \div 2
HALF_PITCH_W == 442 * SCALE
HALF_PITCH_H == 622 * SCALE
GOAL_WIDTH == 186 * SCALE
GOAL_DEPTH == 20 * SCALE
HALF_GOAL_W == GOAL_WIDTH \div 2
PITCH_BOUNDS_X == <<HALF_LEVEL_W - HALF_PITCH_W, HALF_LEVEL_W + HALF_PITCH_W>>
PITCH_BOUNDS_Y == <<HALF_LEVEL_H - HALF_PITCH_H, HALF_LEVEL_H + HALF_PITCH_H>>
GOAL_BOUNDS_X == <<HALF_LEVEL_W - HALF_GOAL_W, HALF_LEVEL_W + HALF_GOAL_W>>
GOAL_BOUNDS_Y == <<HALF_LEVEL_H - HALF_PITCH_H - GOAL_DEPTH,
                   HALF_LEVEL_H + HALF_PITCH_H + GOAL_DEPTH>>
\* pygame Rect.collidepoint: left and top edges inside, right and bottom outside
CollidePoint(left, top, w, h, x, y) ==
    left <= x /\ x < left + w /\ top <= y /\ y < top + h
AI_MIN_X == 78 * SCALE
AI_MAX_X == LEVEL_W - 78 * SCALE
AI_MIN_Y == 98 * SCALE
AI_MAX_Y == LEVEL_H - 98 * SCALE
PLAYER_START_POS == << <<350, 550>>, <<650, 450>>, <<200, 850>>, <<500, 750>>,
                       <<800, 950>>, <<350, 1250>>, <<650, 1150>> >>
LEAD_DISTANCE_1 == 10 * SCALE
LEAD_DISTANCE_2 == 50 * SCALE
DRIBBLE_DIST_X == 18 * SCALE
DRIBBLE_DIST_Y == 16 * SCALE
PLAYER_DEFAULT_SPEED == 2 * SCALE
CPU_PLAYER_WITH_BALL_BASE_SPEED == (26 * SCALE) \div 10
PLAYER_INTERCEPT_BALL_SPEED == (275 * SCALE) \div 100
LEAD_PLAYER_BASE_SPEED == (29 * SCALE) \div 10
HUMAN_PLAYER_WITH_BALL_SPEED == 3 * SCALE
HUMAN_PLAYER_WITHOUT_BALL_SPEED == (33 * SCALE) \div 10
KICK_STRENGTH == (115 * SCALE) \div 10
\* DRAG = 0.98, as a percentage
DRAG_PCT == 98

(***************************************************************************)
(* Compass directions and vectors                                          *)
(***************************************************************************)
\* sin(x) of the program: sine of x eighths of a turn, in UNIT
sin(x) == <<0, 707, 1000, 707, 0, -707, -1000, -707>>[(x % 8) + 1]
cos(x) == sin(x + 2)

\* tan(22.5 degrees) in ten-thousandths: the border between two octants
TAN_HALF_OCTANT == 4142
vec_to_angle(vec) ==
    LET ax == Abs(vec[1])
        ay == Abs(vec[2])
    IN IF ax * 10000 < ay * TAN_HALF_OCTANT \/ (ax = 0 /\ ay = 0)
         THEN (IF vec[2] < 0 THEN 0 ELSE 4)
       ELSE IF ay * 10000 < ax * TAN_HALF_OCTANT
         THEN (IF vec[1] > 0 THEN 2 ELSE 6)
       ELSE IF vec[1] > 0 THEN (IF vec[2] < 0 THEN 1 ELSE 3)
       ELSE (IF vec[2] > 0 THEN 5 ELSE 7)

angle_to_vec(angle) == <<sin(angle), -cos(angle)>>

\* <<unit vector, length>>; the zero vector gives <<zero vector, 0>>
Normalised(vec, length) ==
    IF length = 0 THEN << <<0, 0>>, 0 >>
    ELSE << <<Quot(vec[1] * UNIT, length), Quot(vec[2] * UNIT, length)>>, length >>
safe_normalise(vec) == Normalised(vec, Length(vec))

(***************************************************************************)
(* Ball physics                                                            *)
(***************************************************************************)
\* the same with drag applied twice
ball_physicsDragTwice(pos, vel, bounds) ==
    LET moved == pos + vel
        out == moved < bounds[1] \/ moved > bounds[2]
    IN << IF out THEN pos ELSE moved,
          Quot(Quot((IF out THEN -vel ELSE vel) * DRAG_PCT, 100) * DRAG_PCT, 100) >>

\* one axis: <<new position, new velocity>>
ball_physics(pos, vel, bounds) ==
    LET moved == pos + vel
        out == moved < bounds[1] \/ moved > bounds[2]
    IN << IF out THEN pos ELSE moved,
          Quot((IF out THEN -vel ELSE vel) * DRAG_PCT, 100) >>

\* A ball that rolls without bounds, as steps() and Player.update simulate
\* it: s is <<x, y, vx, vy>>.
PathStep(s) ==
    <<s[1] + s[3], s[2] + s[4], Quot(s[3] * DRAG_PCT, 100), Quot(s[4] * DRAG_PCT, 100)>>
\* the n >= 1 states that follow s
RECURSIVE PathFrom(_, _)
RECURSIVE PathJoin(_, _)
PathFrom(s, n) ==
    IF n = 1 THEN <<PathStep(s)>>
    ELSE PathJoin(PathFrom(s, n \div 2), n - n \div 2)
PathJoin(left, m) == left \o PathFrom(left[Len(left)], m)
\* the frames simulated: more than a kicked ball needs to slow to a stop
MaxPath == 128
\* Path(s)[f + 1] is the ball f frames on
Path(s) == <<s>> \o PathFrom(s, MaxPath)
\* the least element of a set of numbers
Least(S) == CHOOSE m \in S : \A f \in S : m <= f

\* steps(): the ball is "nearly stopped" at 0.25 pixels a tick
KickPath == Path(<<0, 0, KICK_STRENGTH, 0>>)
steps(distance) ==
    Least({n \in 0 .. MaxPath :
             n = MaxPath \/ ~(distance - KickPath[n + 1][1] > 0
                              /\ 4 * KickPath[n + 1][3] > SCALE)})

avg(a, b) == IF Abs(b - a) < SCALE THEN b ELSE Quot(a + b, 2)

on_pitch(x, y) ==
    \/ CollidePoint(PITCH_BOUNDS_X[1], PITCH_BOUNDS_Y[1], HALF_PITCH_W * 2, HALF_PITCH_H * 2, x, y)
    \/ CollidePoint(GOAL_BOUNDS_X[1], GOAL_BOUNDS_Y[1], GOAL_WIDTH, GOAL_DEPTH, x, y)
    \/ CollidePoint(GOAL_BOUNDS_X[1], GOAL_BOUNDS_Y[2] - GOAL_DEPTH, GOAL_WIDTH, GOAL_DEPTH, x, y)

allow_movement(x, y) ==
    IF Abs(x - HALF_LEVEL_W) > HALF_LEVEL_W THEN FALSE
    ELSE IF Abs(x - HALF_LEVEL_W) < HALF_GOAL_W + 20 * SCALE
         THEN Abs(y - HALF_LEVEL_H) < HALF_PITCH_H
    ELSE Abs(y - HALF_LEVEL_H) < HALF_LEVEL_H

(***************************************************************************)
(* Roster, goals and difficulty                                            *)
(*                                                                         *)
(* A player is its index in game.players, 0..13; the even indices are team *)
(* 0, the odd ones team 1.  The two goals are the entities 14 and 15.      *)
(* None is -1.                                                             *)
(***************************************************************************)
NUM_PLAYERS == 2 * Len(PLAYER_START_POS)
Roster == 0 .. (NUM_PLAYERS - 1)
None == -1
GoalOf(team) == NUM_PLAYERS + team
IsPlayer(e) == e \in Roster
IsGoal(e) == e = GoalOf(0) \/ e = GoalOf(1)
TeamOf(e) == IF IsPlayer(e) THEN e % 2 ELSE e - NUM_PLAYERS
Peer(i) == NUM_PLAYERS - 1 - i
\* Goal.__init__: goal 0 at the top, goal 1 at the bottom
GoalPos(team) == <<HALF_LEVEL_W, IF team = 0 THEN 0 ELSE LEVEL_H>>
\* vpos of a player or a goal
VPos(ps, e) == IF IsPlayer(e) THEN <<ps[e].x, ps[e].y>> ELSE GoalPos(TeamOf(e))

\* DIFFICULTY[0..2]; speed_boost 0, 0.1, 0.2
DIFFICULTY ==
    << [goalie_enabled |-> FALSE, second_lead_enabled |-> FALSE,
        speed_boost |-> 0, holdoff_timer |-> 120],
       [goalie_enabled |-> FALSE, second_lead_enabled |-> TRUE,
        speed_boost |-> (1 * SCALE) \div 10, holdoff_timer |-> 90],
       [goalie_enabled |-> TRUE, second_lead_enabled |-> TRUE,
        speed_boost |-> (2 * SCALE) \div 10, holdoff_timer |-> 60] >>
Difficulty(d) == DIFFICULTY[d + 1]

\* squared length of the vector between two points of the level
DistSq(a, b) == (a[1] - b[1]) * (a[1] - b[1]) + (a[2] - b[2]) * (a[2] - b[2])

\* min(range(len(keys)), key = keys): the first index of a least key
FirstMin(keys) ==
    CHOOSE k \in 1 .. Len(keys) :
        \A j \in 1 .. Len(keys) : keys[k] < keys[j] \/ (j >= k /\ keys[k] = keys[j])
\* min(list, key = dist_key(pos)): the first entity of the list nearest pos
Nearest(ps, list, pos) ==
    list[FirstMin([k \in 1 .. Len(list) |-> DistSq(VPos(ps, list[k]), pos)])]
PlayerList == [k \in 1 .. NUM_PLAYERS |-> k - 1]
EntityList == PlayerList \o <<GoalOf(0), GoalOf(1)>>


\* f[lo] + ... + f[hi]
RECURSIVE Sum(_, _, _)
Sum(f, lo, hi) ==
    IF lo = hi THEN f[lo]
    ELSE Sum(f, lo, (lo + hi) \div 2) + Sum(f, (lo + hi) \div 2 + 1, hi)

(***************************************************************************)
(* targetable and cost                                                     *)
(***************************************************************************)
HOLDOFF_LOST == 60
HOLDOFF_KICK == 10
TARGET_RANGE == 300 * SCALE
\* the dot-product threshold 0.8, in UNIT
AHEAD_DOT == 800

\* lines 194-208: the opposing player p stands between source and target;
\* v0 is the direction from source to target
Blocks(p, target, source, ps, v0) ==
    /\ TeamOf(p) # TeamOf(target)
    /\ VPos(ps, p) # VPos(ps, source)
    /\ DistSq(VPos(ps, p), VPos(ps, source)) < DistSq(VPos(ps, target), VPos(ps, source))
    /\ Dot(v0, safe_normalise(VSub(VPos(ps, p), VPos(ps, source)))[1]) > AHEAD_DOT

\* the same for a target of either team
TargetableAlongAnyTeam(target, source, ps, human, v0) ==
    /\ human[TeamOf(source)] \/ \A p \in Roster : ~Blocks(p, target, source, ps, v0)
    /\ VPos(ps, target) # VPos(ps, source)
    /\ ShorterThan(VSub(VPos(ps, target), VPos(ps, source)), TARGET_RANGE)
    /\ Dot(v0, angle_to_vec(ps[source].dir)) > AHEAD_DOT

TargetableAlong(target, source, ps, human, v0) ==
    /\ human[TeamOf(source)] \/ \A p \in Roster : ~Blocks(p, target, source, ps, v0)
    /\ TeamOf(target) = TeamOf(source)
    /\ VPos(ps, target) # VPos(ps, source)
    /\ ShorterThan(VSub(VPos(ps, target), VPos(ps, source)), TARGET_RANGE)
    /\ Dot(v0, angle_to_vec(ps[source].dir)) > AHEAD_DOT

targetable(target, source, ps, human) ==
    TargetableAlong(target, source, ps, human,
                    safe_normalise(VSub(VPos(ps, target), VPos(ps, source)))[1])

\* entrance of the team's own goal
OwnGoalPos(team) ==
    <<HALF_LEVEL_W, IF team = 1 THEN 78 * SCALE ELSE LEVEL_H - 78 * SCALE>>
\* cost() divides by the distance to the own goal entrance
CostDividesByZero(pos, team) == pos = OwnGoalPos(team)
\* 4000 / max(24, distance of the opposing player p from pos), line 435
Repulsion(p, pos, ps) ==
    Quot(4000 * UNIT * SCALE, Max2(24 * SCALE, Length(VSub(VPos(ps, p), pos))))
\* the cost of a position, in thousandths
cost(pos, team, handicap, ps) ==
    Quot(3500 * UNIT * SCALE, Max2(1, Length(VSub(pos, OwnGoalPos(team)))))
       + Sum([k \in 1 .. NUM_PLAYERS \div 2 |-> Repulsion(2 * k - 1 - team, pos, ps)],
             1, NUM_PLAYERS \div 2)
       + Quot((pos[1] - HALF_LEVEL_W) * (pos[1] - HALF_LEVEL_W),
              (200 * SCALE * SCALE) \div UNIT)
       - pos[2] * (UNIT \div SCALE) * (4 * team - 2)
       + handicap * UNIT

(***************************************************************************)
(* The tick                                                                *)
(*                                                                         *)
(* A game is the record [players, ball, acp, score, human, difficulty,     *)
(* score_timer, scoring_team, kickoff_player, camera_focus]; acp, score    *)
(* and human are the teams' active_control_player, score and human(), by   *)
(* team.  A player is [x, y, dir, timer, hx, hy, mark, lead]: position,    *)
(* facing, hold-off timer, home position, and the two roles Game.update    *)
(* assigns each tick (mark: the entity to mark; lead: a lead distance or   *)
(* None).  A ball is [x, y, vx, vy, owner, timer].  anim_frame, the        *)
(* shadows and the images only feed the drawing and are left out.          *)
(*                                                                         *)
(* The operators of a call of Game.update pass on a record t, the tick:    *)
(* [g: the game, keyboard, key_status, err: the exception raised or        *)
(* "none", ev: what the tick did so far, path: the simulated path of the   *)
(* ball].  ev is [reset, goal: did the tick reset the match, count a goal; *)
(* lost: the owner who dribbled the ball off the pitch; acquired: the      *)
(* pairs <<previous owner or None, new owner>> of the acquisition pass, in *)
(* order; kicker and target: who kicked, and at which entity].             *)
(***************************************************************************)
NoEvent == [reset |-> FALSE, goal |-> FALSE, lost |-> None, acquired |-> <<>>,
            kicker |-> None, target |-> None]
Tick(g, keyboard, key_status) ==
    [g |-> g, keyboard |-> keyboard, key_status |-> key_status,
     err |-> "none", ev |-> NoEvent, path |-> <<>>]
Raise(t, err) == [t EXCEPT !.err = err]

(***************************************************************************)
(* Ball.update                                                             *)
(***************************************************************************)
\* the same without the hold-off timer
collideWhileHeldOff(b, p) == Within(<<p.x - b.x, p.y - b.y>>, DRIBBLE_DIST_X)

\* Ball.collide(p)
collide(b, p) ==
    p.timer < 0 /\ Within(<<p.x - b.x, p.y - b.y>>, DRIBBLE_DIST_X)

\* the same with the lost ball left where it went off the pitch
BallDribbleAndLeave(t, new_x, new_y) ==
    IF on_pitch(new_x, new_y)
    THEN [t EXCEPT !.g.ball.x = new_x, !.g.ball.y = new_y]
    ELSE [t EXCEPT
            !.g.players[t.g.ball.owner].timer = HOLDOFF_LOST,
            !.g.ball.x = new_x, !.g.ball.y = new_y,
            !.g.ball.vx = VScale(angle_to_vec(t.g.players[t.g.ball.owner].dir), 3 * SCALE)[1],
            !.g.ball.vy = VScale(angle_to_vec(t.g.players[t.g.ball.owner].dir), 3 * SCALE)[2],
            !.g.ball.owner = None,
            !.ev.lost = t.g.ball.owner]

\* lines 262-276: the dribbled ball moves to (new_x, new_y), or is lost there
BallDribble(t, new_x, new_y) ==
    IF on_pitch(new_x, new_y)
    THEN [t EXCEPT !.g.ball.x = new_x, !.g.ball.y = new_y]
    ELSE [t EXCEPT
            !.g.players[t.g.ball.owner].timer = HOLDOFF_LOST,
            !.g.ball.vx = VScale(angle_to_vec(t.g.players[t.g.ball.owner].dir), 3 * SCALE)[1],
            !.g.ball.vy = VScale(angle_to_vec(t.g.players[t.g.ball.owner].dir), 3 * SCALE)[2],
            !.g.ball.owner = None,
            !.ev.lost = t.g.ball.owner]

\* lines 277-298: physics, one axis at a time; px and py are <<pos, vel>>
BallRoll(t, px, py) ==
    [t EXCEPT !.g.ball.x = px[1], !.g.ball.vx = px[2],
              !.g.ball.y = py[1], !.g.ball.vy = py[2]]

\* lines 254-298
BallMove(t) ==
    IF t.g.ball.owner # None
    THEN BallDribble(t,
             avg(t.g.ball.x, t.g.players[t.g.ball.owner].x
                             + Quot(DRIBBLE_DIST_X * sin(t.g.players[t.g.ball.owner].dir), UNIT)),
             avg(t.g.ball.y, t.g.players[t.g.ball.owner].y
                             - Quot(DRIBBLE_DIST_Y * cos(t.g.players[t.g.ball.owner].dir), UNIT)))
    ELSE BallRoll(t,
             ball_physics(t.g.ball.x, t.g.ball.vx,
                          IF Abs(t.g.ball.y - HALF_LEVEL_H) > HALF_PITCH_H
                          THEN GOAL_BOUNDS_X ELSE PITCH_BOUNDS_X),
             ball_physics(t.g.ball.y, t.g.ball.vy,
                          IF Abs(t.g.ball.x - HALF_LEVEL_W) < HALF_GOAL_W
                          THEN GOAL_BOUNDS_Y ELSE PITCH_BOUNDS_Y))

\* the same without the test of the teams: a team mate of the owner, and
\* the owner, may take the ball
CanAcquireFromTeamMate(t, target) == collide(t.g.ball, t.g.players[target])

\* lines 307-318: may the player `target` take the ball now
CanAcquire(t, target) ==
    /\ t.g.ball.owner = None \/ TeamOf(t.g.ball.owner) # TeamOf(target)
    /\ collide(t.g.ball, t.g.players[target])

\* the same, with the ball put at the dribble position of its new owner
AcquireAndAnchor(t, target) ==
         [t EXCEPT
            !.g.players = IF t.g.ball.owner # None
                          THEN [@ EXCEPT ![t.g.ball.owner].timer = HOLDOFF_LOST] ELSE @,
            !.g.ball.timer = Difficulty(t.g.difficulty).holdoff_timer,
            !.g.ball.owner = target,
            !.g.ball.x = t.g.players[target].x
                         + Quot(DRIBBLE_DIST_X * sin(t.g.players[target].dir), UNIT),
            !.g.ball.y = t.g.players[target].y
                         - Quot(DRIBBLE_DIST_Y * cos(t.g.players[target].dir), UNIT),
            !.g.acp[TeamOf(target)] = target,
            !.ev.acquired = Append(@, <<t.g.ball.owner, target>>)]

\* the same without handing the team's control to the new owner
AcquireWithoutControl(t, target) ==
         [t EXCEPT
            !.g.players = IF t.g.ball.owner # None
                          THEN [@ EXCEPT ![t.g.ball.owner].timer = HOLDOFF_LOST] ELSE @,
            !.g.ball.timer = Difficulty(t.g.difficulty).holdoff_timer,
            !.g.ball.owner = target,
            !.ev.acquired = Append(@, <<t.g.ball.owner, target>>)]

\* lines 309-318: the player `target` takes the ball
AcquireBy(t, target) ==
         [t EXCEPT
            !.g.players = IF t.g.ball.owner # None
                          THEN [@ EXCEPT ![t.g.ball.owner].timer = HOLDOFF_LOST] ELSE @,
            !.g.ball.timer = Difficulty(t.g.difficulty).holdoff_timer,
            !.g.ball.owner = target,
            !.g.acp[TeamOf(target)] = target,
            !.ev.acquired = Append(@, <<t.g.ball.owner, target>>)]

\* lines 304-318: the search for a player that can acquire the ball, over
\* the players from roster index target on
RECURSIVE BallAcquire(_, _)
BallAcquire(t, target) ==
    IF target = NUM_PLAYERS THEN t
    ELSE IF CanAcquire(t, target) THEN BallAcquire(AcquireBy(t, target), target + 1)
    ELSE BallAcquire(t, target + 1)

\* Controls.__init__: the keys of player 1 (team 0) and player 2 (team 1)
Controls(player_num) ==
    IF player_num = 0
    THEN [up |-> "UP", down |-> "DOWN", left |-> "LEFT", right |-> "RIGHT",
          shoot |-> "SPACE"]
    ELSE [up |-> "W", down |-> "S", left |-> "A", right |-> "D", shoot |-> "LSHIFT"]
KeyNames == {"UP", "DOWN", "LEFT", "RIGHT", "SPACE", "W", "S", "A", "D", "LSHIFT"}

\* key_just_pressed(key): <<result, key_status>>; a key the dictionary
\* key_status does not hold yet is one that was not pressed
key_just_pressed(keyboard, key_status, key) ==
    << ~key_status[key] /\ keyboard[key], [key_status EXCEPT ![key] = keyboard[key]] >>

\* lines 326-335: the nearest targetable player or goal of the owner's team
NearestOrNone(ps, list, pos) ==
    IF Len(list) > 0 THEN Nearest(ps, list, pos) ELSE None
ShootTarget(t) ==
    NearestOrNone(t.g.players,
                  SelectSeq(EntityList,
                            LAMBDA p : /\ TeamOf(p) = TeamOf(t.g.ball.owner)
                                       /\ targetable(p, t.g.ball.owner, t.g.players,
                                                     t.g.human)),
                  VPos(t.g.players, t.g.ball.owner))

\* lines 361-378: the kick direction toward a target, refined `iterations` times
RECURSIVE AimLoop(_, _, _, _, _)
RECURSIVE AimNext(_, _, _, _, _)
AimLoop(tpos, odir, bpos, r, iterations) ==
    AimNext(tpos, odir, bpos, iterations,
            safe_normalise(VSub(VAdd(tpos, VScale(angle_to_vec(odir), r)), bpos)))
\* the same without the lead: the direction of the first iteration
AimStraight(tpos, odir, bpos, iterations, n) == n[1]

\* n is <<vec, length>> of the iteration; at length 0 the lead r is 0 again
\* and every further iteration computes the same n
AimNext(tpos, odir, bpos, iterations, n) ==
    IF iterations = 1 \/ n[2] = 0 THEN n[1]
    ELSE AimLoop(tpos, odir, bpos,
                 HUMAN_PLAYER_WITHOUT_BALL_SPEED * steps(n[2]), iterations - 1)
AIM_ITERATIONS == 8

\* the same kick, but the kicker gets no hold-off
KickWithoutHoldoff(t, target, receiver, vec) ==
    [t EXCEPT
       !.g.ball.vx = VScale(vec, KICK_STRENGTH)[1],
       !.g.ball.vy = VScale(vec, KICK_STRENGTH)[2],
       !.g.ball.owner = None,
       !.g.acp = IF IsPlayer(receiver)
                 THEN [@ EXCEPT ![TeamOf(t.g.ball.owner)] = receiver] ELSE @,
       !.ev.kicker = t.g.ball.owner,
       !.ev.target = target]

\* lines 349-400: the owner kicks the ball along vec; target is the entity
\* aimed at or None, receiver the player who may become active
Kick(t, target, receiver, vec) ==
    [t EXCEPT
       !.g.players[t.g.ball.owner].timer = HOLDOFF_KICK,
       !.g.ball.vx = VScale(vec, KICK_STRENGTH)[1],
       !.g.ball.vy = VScale(vec, KICK_STRENGTH)[2],
       !.g.ball.owner = None,
       !.g.acp = IF IsPlayer(receiver)
                 THEN [@ EXCEPT ![TeamOf(t.g.ball.owner)] = receiver] ELSE @,
       !.ev.kicker = t.g.ball.owner,
       !.ev.target = target]

\* the same with the nearest player of either team as the receiver
KickAheadToAnyone(t, vec) ==
    Kick(t, None,
         Nearest(t.g.players, PlayerList,
                 VAdd(<<t.g.ball.x, t.g.ball.y>>, VScale(vec, 250 * SCALE))),
         vec)

\* lines 376-384: a kick straight ahead, with nobody to aim at
KickAhead(t, vec) ==
    Kick(t, None,
         Nearest(t.g.players,
                 SelectSeq(PlayerList, LAMBDA p : TeamOf(p) = TeamOf(t.g.ball.owner)),
                 VAdd(<<t.g.ball.x, t.g.ball.y>>, VScale(vec, 250 * SCALE))),
         vec)

\* lines 349-400
DoShoot(t, target) ==
    IF target = None
    THEN KickAhead(t, angle_to_vec(t.g.players[t.g.ball.owner].dir))
    ELSE Kick(t, target, target,
              AimLoop(VPos(t.g.players, target), t.g.players[t.g.ball.owner].dir,
                      <<t.g.ball.x, t.g.ball.y>>, 0,
                      IF t.g.human[TeamOf(t.g.ball.owner)] /\ IsPlayer(target)
                      THEN AIM_ITERATIONS ELSE 1))

\* line 345: the comparison of the two tuples cost() returned; equal costs
\* make Python compare the two Vector2, which raises TypeError
CostDecides(t, target, c_target, c_owner) ==
    IF c_target = c_owner
       /\ VPos(t.g.players, target) # VPos(t.g.players, t.g.ball.owner)
    THEN Raise(t, "TypeError")
    ELSE IF c_target < c_owner THEN DoShoot(t, target)
    ELSE t

\* the same without the test of the ball's timer
ComputerKickAtOnce(t, target) ==
    IF target = None THEN t
    ELSE IF CostDividesByZero(VPos(t.g.players, target), TeamOf(t.g.ball.owner))
            \/ CostDividesByZero(VPos(t.g.players, t.g.ball.owner), TeamOf(t.g.ball.owner))
    THEN Raise(t, "ZeroDivisionError")
    ELSE CostDecides(t, target,
                     cost(VPos(t.g.players, target), TeamOf(t.g.ball.owner), 0, t.g.players),
                     cost(VPos(t.g.players, t.g.ball.owner), TeamOf(t.g.ball.owner), 0,
                          t.g.players))

\* lines 337-345: the computer's decision to kick at target
ComputerKick(t, target) ==
    IF ~(t.g.ball.timer <= 0 /\ target # None) THEN t
    ELSE IF CostDividesByZero(VPos(t.g.players, target), TeamOf(t.g.ball.owner))
            \/ CostDividesByZero(VPos(t.g.players, t.g.ball.owner), TeamOf(t.g.ball.owner))
    THEN Raise(t, "ZeroDivisionError")
    ELSE CostDecides(t, target,
                     cost(VPos(t.g.players, target), TeamOf(t.g.ball.owner), 0, t.g.players),
                     cost(VPos(t.g.players, t.g.ball.owner), TeamOf(t.g.ball.owner), 0,
                          t.g.players))

\* lines 337-400, with the target of lines 326-335 and the result of
\* key_just_pressed for the owner's team
KickAt(t, target, key) ==
    IF t.g.human[TeamOf(t.g.ball.owner)]
    THEN IF key[1] THEN DoShoot([t EXCEPT !.key_status = key[2]], target)
         ELSE [t EXCEPT !.key_status = key[2]]
    ELSE ComputerKick(t, target)

\* lines 320-400: the decision to kick, and the kick
BallKick(t) ==
    IF t.g.ball.owner = None THEN t
    ELSE KickAt(t, ShootTarget(t),
                key_just_pressed(t.keyboard, t.key_status,
                                 Controls(TeamOf(t.g.ball.owner)).shoot))

\* Ball.update, lines 249-400
BallUpdate(t) ==
    IF t.err # "none" THEN t
    ELSE BallKick(BallAcquire(BallMove([t EXCEPT !.g.ball.timer = @ - 1]), 0))

(***************************************************************************)
(* Player.update                                                           *)
(***************************************************************************)
\* Player.active() and Goal.active()
PlayerActive(p, b) == Abs(b.y - p.hy) < 400 * SCALE
GoalActive(team, b) == Abs(b.y - GoalPos(team)[2]) < 500 * SCALE
MarkActive(ps, e, b) ==
    IF IsPlayer(e) THEN PlayerActive(ps[e], b) ELSE GoalActive(TeamOf(e), b)

\* lines 618-630: the simulated ball position the player can reach first;
\* path is the ball's simulated path, Path(<<b.x, b.y, b.vx, b.vy>>)
InterceptFrame(vpos, path) ==
    Least({frame \in 0 .. MaxPath :
             \/ frame = MaxPath
             \/ ~(/\ LongerThan(<<path[frame + 1][1] - vpos[1], path[frame + 1][2] - vpos[2]>>,
                                PLAYER_INTERCEPT_BALL_SPEED * frame + DRIBBLE_DIST_X)
                  /\ LongerThan(<<path[frame + 1][3], path[frame + 1][4]>>, SCALE \div 2))})
InterceptAt(path, frame) == <<path[frame + 1][1], path[frame + 1][2]>>
Intercept(vpos, path) == InterceptAt(path, InterceptFrame(vpos, path))

\* lines 531-545: the five positions a computer-controlled owner evaluates
Candidate(p, d) == VAdd(<<p.x, p.y>>, VScale(angle_to_vec(p.dir + d), 3 * SCALE))
CandidateCost(ps, p, team, d) == cost(Candidate(p, d), team, Abs(d), ps)
\* min(costs, key = element[0]) over d in range(-2, 3)
BestOf(p, costs) == Candidate(p, FirstMin(costs) - 3)
BestCandidate(ps, p, team) ==
    BestOf(p, << CandidateCost(ps, p, team, -2), CandidateCost(ps, p, team, -1),
                 CandidateCost(ps, p, team, 0), CandidateCost(ps, p, team, 1),
                 CandidateCost(ps, p, team, 2) >>)

\* lines 595-610: the position between the marked entity (at mpos) and the
\* ball; n is <<vec, length>> from mpos to the ball
MarkTarget(mpos, is_goal, n) ==
    VAdd(mpos, VScale(n[1], IF is_goal THEN Min2(150 * SCALE, n[2]) ELSE Quot(n[2], 2)))

\* Controls.move(speed)
ControlsMove(keyboard, controls, speed) ==
    << (IF keyboard[controls.left] THEN -1
        ELSE IF keyboard[controls.right] THEN 1 ELSE 0) * speed,
       (IF keyboard[controls.up] THEN -1
        ELSE IF keyboard[controls.down] THEN 1 ELSE 0) * speed >>

\* the same before the kick-off as after it
HumanSteersBeforeKickOff(t, i) ==
    /\ i = t.g.acp[TeamOf(i)]
    /\ t.g.human[TeamOf(i)]

\* line 500: the player i is the one its team's human steers
HumanSteers(t, i) ==
    /\ i = t.g.acp[TeamOf(i)]
    /\ t.g.human[TeamOf(i)]
    /\ (t.g.kickoff_player = None \/ i = t.g.kickoff_player)

\* lines 507-515: <<target, speed>> of the steered player
SteeredTarget(self, keyboard, controls, speed) ==
    << VAdd(<<self.x, self.y>>, ControlsMove(keyboard, controls, speed)), speed >>

\* lines 551-559: a team mate of the owner runs ahead of the ball
SupportTarget(self, team, b) ==
    IF PlayerActive(self, b)
    THEN << << Quot(b.x + self.hx, 2),
               Quot(b.y + 400 * SCALE * (IF team = 0 THEN -1 ELSE 1) + self.hy, 2) >>,
            PLAYER_DEFAULT_SPEED >>
    ELSE << <<self.hx, self.hy>>, PLAYER_DEFAULT_SPEED >>

\* lines 566-581: a lead player heads off the owner o; other_team is as
\* line 574 computes it
LeadTarget(self, o, human, boost, other_team) ==
    << << Max2(AI_MIN_X, Min2(AI_MAX_X, o.x + VScale(angle_to_vec(o.dir), self.lead)[1])),
          Max2(AI_MIN_Y, Min2(AI_MAX_Y, o.y + VScale(angle_to_vec(o.dir), self.lead)[2])) >>,
       LEAD_PLAYER_BASE_SPEED + (IF human[other_team] THEN boost ELSE 0) >>

\* lines 583-612: a player of the team without the ball marks
DefendTarget(t, self, team) ==
    IF ~MarkActive(t.g.players, self.mark, t.g.ball)
    THEN << <<self.hx, self.hy>>, PLAYER_DEFAULT_SPEED >>
    ELSE IF t.g.human[team]
    THEN << <<t.g.ball.x, t.g.ball.y>>, PLAYER_DEFAULT_SPEED >>
    ELSE << MarkTarget(VPos(t.g.players, self.mark), IsGoal(self.mark),
                       safe_normalise(VSub(<<t.g.ball.x, t.g.ball.y>>,
                                           VPos(t.g.players, self.mark)))),
            PLAYER_DEFAULT_SPEED >>

\* lines 517-612: the ball has an owner
OwnedTarget(t, i, self, team) ==
    IF t.g.ball.owner = i
    THEN << BestCandidate(t.g.players, self, team),
            CPU_PLAYER_WITH_BALL_BASE_SPEED + Difficulty(t.g.difficulty).speed_boost >>
    ELSE IF TeamOf(t.g.ball.owner) = team THEN SupportTarget(self, team, t.g.ball)
    ELSE IF self.lead # None
    THEN LeadTarget(self, t.g.players[t.g.ball.owner], t.g.human,
                    Difficulty(t.g.difficulty).speed_boost,
                    IF team = 0 THEN 1 ELSE 1)
    ELSE DefendTarget(t, self, team)

\* lines 614-638: nobody owns the ball
LooseTarget(t, i, self) ==
    IF \/ t.g.kickoff_player # None /\ i = t.g.kickoff_player
       \/ t.g.kickoff_player = None /\ PlayerActive(self, t.g.ball)
    THEN << Intercept(<<self.x, self.y>>, t.path), PLAYER_INTERCEPT_BALL_SPEED >>
    ELSE IF t.g.kickoff_player # None
    THEN << <<self.hx, self.y>>, PLAYER_DEFAULT_SPEED >>
    ELSE << <<self.hx, self.hy>>, PLAYER_DEFAULT_SPEED >>

\* lines 491-638: <<target, speed>> of player i
PlayerTarget(t, i) ==
    IF HumanSteers(t, i)
    THEN SteeredTarget(t.g.players[i], t.keyboard, Controls(TeamOf(i)),
                       IF t.g.ball.owner = i THEN HUMAN_PLAYER_WITH_BALL_SPEED
                       ELSE HUMAN_PLAYER_WITHOUT_BALL_SPEED)
    ELSE IF t.g.ball.owner # None THEN OwnedTarget(t, i, t.g.players[i], TeamOf(i))
    ELSE LooseTarget(t, i, t.g.players[i])

\* line 531: cost() divides by zero on one of the five positions
OwnerCostFails(t, i) ==
    /\ ~HumanSteers(t, i)
    /\ t.g.ball.owner = i
    /\ \E d \in -2 .. 2 : CostDividesByZero(Candidate(t.g.players[i], d), TeamOf(i))

\* the same with the half turn taken anticlockwise
TurnTowardHalfTurnBack(dir, target_dir) ==
    (dir + <<0, 1, 1, 1, 7, 7, 7, 7>>[((target_dir - dir) % 8) + 1]) % 8

\* the turn of one compass step toward target_dir, line 675
TurnToward(dir, target_dir) ==
    (dir + <<0, 1, 1, 1, 1, 7, 7, 7>>[((target_dir - dir) % 8) + 1]) % 8

\* the same with both axes checked from where the player stood
PlayerStepFromOld(self, delta, step) ==
    [self EXCEPT
       !.timer = self.timer - 1,
       !.x = IF allow_movement(self.x + step[1], self.y)
             THEN self.x + step[1] ELSE self.x,
       !.y = IF allow_movement(self.x, self.y + step[2])
             THEN self.y + step[2] ELSE self.y,
       !.dir = TurnToward(self.dir, vec_to_angle(delta))]

\* lines 650-683, length > 0: the player `self` takes the step, one axis
\* after the other, and turns toward its target; delta is the vector to it
PlayerStep(self, delta, step) ==
    [self EXCEPT
       !.timer = self.timer - 1,
       !.x = IF allow_movement(self.x + step[1], self.y)
             THEN self.x + step[1] ELSE self.x,
       !.y = IF allow_movement(IF allow_movement(self.x + step[1], self.y)
                               THEN self.x + step[1] ELSE self.x,
                               self.y + step[2])
             THEN self.y + step[2] ELSE self.y,
       !.dir = TurnToward(self.dir, vec_to_angle(delta))]

\* lines 640-649: the step is vec * min(distance, speed): the whole way when
\* the target is within reach; n is <<vec, length>> of delta
PlayerToward(self, delta, n, speed) ==
    PlayerStep(self, delta,
               IF n[2] <= speed THEN delta ELSE VScale(n[1], Min2(n[2], speed)))

\* lines 677-683, length = 0: the player `self` is at its target and turns
\* toward the ball
PlayerFaces(self, b) ==
    [self EXCEPT
       !.timer = self.timer - 1,
       !.dir = TurnToward(self.dir, vec_to_angle(<<b.x - self.x, b.y - self.y>>))]

\* lines 640-683: the player `self` moves toward ts[1] at speed ts[2], and turns
PlayerMove(self, ts, b) ==
    IF ts[1] = <<self.x, self.y>> THEN PlayerFaces(self, b)
    ELSE PlayerToward(self, VSub(ts[1], <<self.x, self.y>>),
                      safe_normalise(VSub(ts[1], <<self.x, self.y>>)), ts[2])

\* Player.update, lines 485-683, of player i
PlayerUpdate(t, i) ==
    IF OwnerCostFails(t, i)
    THEN Raise([t EXCEPT !.g.players[i].timer = @ - 1], "ZeroDivisionError")
    ELSE [t EXCEPT !.g.players[i] = PlayerMove(@, PlayerTarget(t, i), t.g.ball)]

\* line 843: the players from roster index i on are updated one after the
\* other, in roster order, until one raises an exception
RECURSIVE PlayersFrom(_, _)
PlayersFrom(t, i) ==
    IF i = NUM_PLAYERS \/ t.err # "none" THEN t
    ELSE PlayersFrom(PlayerUpdate(t, i), i + 1)

\* the same with every player updated from the state the tick began with
PlayersUpdateCommitted(t) ==
    IF t.err # "none" THEN t
    ELSE [t EXCEPT !.g.players =
            [i \in Roster |->
               PlayerUpdate([t EXCEPT !.path = IF t.g.ball.owner = None
                                               THEN Path(<<t.g.ball.x, t.g.ball.y,
                                                           t.g.ball.vx, t.g.ball.vy>>)
                                               ELSE <<>>], i).g.players[i]]]

\* The ball does not move while the players are updated: its simulated path
\* (lines 620-630) is the same for every player
PlayersUpdate(t) ==
    IF t.err # "none" THEN t
    ELSE PlayersFrom([t EXCEPT !.path = IF t.g.ball.owner = None
                                        THEN Path(<<t.g.ball.x, t.g.ball.y,
                                                    t.g.ball.vx, t.g.ball.vy>>)
                                        ELSE <<>>],
                     0)

(***************************************************************************)
(* Game                                                                    *)
(***************************************************************************)
SCORE_FREEZE == 60
RANDOM_OFFSET == 32

\* Player.__init__ with the home position (x, y), in pixels
NewPlayer(x, y, team, i) ==
    [x |-> x * SCALE, y |-> (y * SCALE) \div 2 + (550 - team * 400) * SCALE,
     dir |-> 0, timer |-> 0, hx |-> x * SCALE, hy |-> y * SCALE,
     mark |-> Peer(i), lead |-> None]

\* Ball.__init__
NewBall == [x |-> HALF_LEVEL_W, y |-> HALF_LEVEL_H, vx |-> 0, vy |-> 0,
            owner |-> None, timer |-> 0]

\* a reset after which the team that scored kicks off
GameResetToScorer(g, offset) ==
    LET start(i) == PLAYER_START_POS[(i \div 2) + 1]
        roster == [i \in Roster |->
                     IF TeamOf(i) = 0
                     THEN NewPlayer(start(i)[1] + offset[i][1],
                                    start(i)[2] + offset[i][2], 0, i)
                     ELSE NewPlayer(LEVEL_W \div SCALE - start(i)[1] + offset[i][1],
                                    LEVEL_H \div SCALE - start(i)[2] + offset[i][2], 1, i)]
    IN [g EXCEPT
          !.players = [roster EXCEPT
                         ![g.scoring_team].x =
                             HALF_LEVEL_W - 30 * SCALE + g.scoring_team * 60 * SCALE,
                         ![g.scoring_team].y = HALF_LEVEL_H],
          !.acp = [team \in 0 .. 1 |-> team],
          !.kickoff_player = g.scoring_team,
          !.ball = NewBall,
          !.camera_focus = <<HALF_LEVEL_W, HALF_LEVEL_H>>]

\* Game.reset, lines 719-765.  offset[i] is the pair random_offset adds to the
\* home position of player i.
GameReset(g, offset) ==
    LET start(i) == PLAYER_START_POS[(i \div 2) + 1]
        roster == [i \in Roster |->
                     IF TeamOf(i) = 0
                     THEN NewPlayer(start(i)[1] + offset[i][1],
                                    start(i)[2] + offset[i][2], 0, i)
                     ELSE NewPlayer(LEVEL_W \div SCALE - start(i)[1] + offset[i][1],
                                    LEVEL_H \div SCALE - start(i)[2] + offset[i][2], 1, i)]
        other_team == IF g.scoring_team = 0 THEN 1 ELSE 0
    IN [g EXCEPT
          !.players = [roster EXCEPT
                         ![other_team].x = HALF_LEVEL_W - 30 * SCALE + other_team * 60 * SCALE,
                         ![other_team].y = HALF_LEVEL_H],
          !.acp = [team \in 0 .. 1 |-> team],
          !.kickoff_player = other_team,
          !.ball = NewBall,
          !.camera_focus = <<HALF_LEVEL_W, HALF_LEVEL_H>>]

\* Game.__init__, lines 697-717; human[team] says whether the team has controls
NewGame(human, difficulty, offset) ==
    GameReset([players |-> <<>>, ball |-> NewBall, acp |-> [team \in 0 .. 1 |-> team],
               score |-> [team \in 0 .. 1 |-> 0], human |-> human,
               difficulty |-> difficulty, score_timer |-> 0, scoring_team |-> 1,
               kickoff_player |-> None, camera_focus |-> <<0, 0>>],
              offset)

\* lines 775-779: a goal for team scoring_team
GoalFor(t, scoring_team) ==
    [t EXCEPT !.g.scoring_team = scoring_team,
              !.g.score[scoring_team] = @ + 1,
              !.g.score_timer = SCORE_FREEZE,
              !.ev.goal = TRUE]

\* the same without the test of the score timer: a ball left beyond the
\* goal line is counted tick after tick
GameScoreWhileFrozen(t, offset) ==
    IF t.g.score_timer - 1 = 0
    THEN [t EXCEPT !.g = GameReset([@ EXCEPT !.score_timer = 0], offset),
                   !.ev.reset = TRUE]
    ELSE IF Abs(t.g.ball.y - HALF_LEVEL_H) > HALF_PITCH_H
    THEN GoalFor(t, IF t.g.ball.y < HALF_LEVEL_H THEN 0 ELSE 1)
    ELSE [t EXCEPT !.g.score_timer = @ - 1]

\* lines 768-779: the score timer, the reset after a goal, and goal detection
GameScore(t, offset) ==
    IF t.g.score_timer - 1 = 0
    THEN [t EXCEPT !.g = GameReset([@ EXCEPT !.score_timer = 0], offset),
                   !.ev.reset = TRUE]
    ELSE IF t.g.score_timer - 1 < 0 /\ Abs(t.g.ball.y - HALF_LEVEL_H) > HALF_PITCH_H
    THEN GoalFor(t, IF t.g.ball.y < HALF_LEVEL_H THEN 0 ELSE 1)
    ELSE [t EXCEPT !.g.score_timer = @ - 1]

\* sorted(list, key = dist_key(pos)), a stable sort: the element in place r
\* is the one with r - 1 elements before it
SortsBefore(ps, list, pos, j, k) ==
    \/ DistSq(VPos(ps, list[j]), pos) < DistSq(VPos(ps, list[k]), pos)
    \/ j < k /\ DistSq(VPos(ps, list[j]), pos) = DistSq(VPos(ps, list[k]), pos)
SortByDist(ps, list, pos) ==
    [r \in 1 .. Len(list) |->
        list[CHOOSE k \in 1 .. Len(list) :
                Cardinality({j \in 1 .. Len(list) : SortsBefore(ps, list, pos, j, k)})
                = r - 1]]

\* the same without the padding: zip stops at the end of the shorter list
RECURSIVE ZipToShorter(_, _, _)
ZipToShorter(a, b, k) ==
    IF k > Min2(Len(a), Len(b)) THEN <<>>
    ELSE <<a[k], b[k]>> \o ZipToShorter(a, b, k + 1)

\* line 829: a and b, each padded with two None, zipped and stripped of None
RECURSIVE Zip(_, _, _)
Zip(a, b, k) ==
    IF k > Min2(Len(a), Len(b)) + 2 THEN <<>>
    ELSE (IF k <= Len(a) THEN <<a[k]>> ELSE <<>>)
         \o (IF k <= Len(b) THEN <<b[k]>> ELSE <<>>)
         \o Zip(a, b, k + 1)

\* lines 810-815: the players that may be chosen to lead, nearest the owner first
Eligible(g, p) ==
    /\ TeamOf(p) # TeamOf(g.ball.owner)
    /\ g.players[p].timer <= 0
    /\ ~g.human[IF TeamOf(g.ball.owner) = 0 THEN 1 ELSE 1]
       \/ p # g.acp[IF TeamOf(g.ball.owner) = 0 THEN 1 ELSE 1]
    /\ ~IsGoal(g.players[p].mark)
Chasers(g) ==
    SortByDist(g.players, SelectSeq(PlayerList, LAMBDA p : Eligible(g, p)),
               VPos(g.players, g.ball.owner))

\* lines 820-829: l split into the players upfield of the owner and the
\* others, and zipped
Upfield(ps, o, p) == IF TeamOf(o) = 0 THEN ps[p].y > ps[o].y ELSE ps[p].y < ps[o].y
ZipSplit(ps, o, l) ==
    Zip(SelectSeq(l, LAMBDA p : Upfield(ps, o, p)),
        SelectSeq(l, LAMBDA p : ~Upfield(ps, o, p)), 1)
Zipped(g) == ZipSplit(g.players, g.ball.owner, Chasers(g))

\* the roles of the tick before are kept
RolesKept(t) == t

\* lines 782-785: every player marks its peer, nobody leads
RolesReset(t) ==
    [t EXCEPT !.g.players = [i \in Roster |-> [@[i] EXCEPT !.mark = Peer(i), !.lead = None]]]

\* the goalie marks the goal, and the owner's peer goes on marking the owner
GoalieMarksAlone(ps, o, nearest) ==
    [ps EXCEPT ![nearest].mark = GoalOf(TeamOf(o))]

\* lines 798-804: the goalie `nearest`, and the mark of the owner's peer
GoalieMarks(ps, o, nearest) ==
    [[ps EXCEPT ![Peer(o)].mark = ps[nearest].mark]
        EXCEPT ![nearest].mark = GoalOf(TeamOf(o))]
GoalieRoles(t) ==
    IF Difficulty(t.g.difficulty).goalie_enabled
    THEN [t EXCEPT !.g.players =
            GoalieMarks(@, t.g.ball.owner,
                        Nearest(@, SelectSeq(PlayerList,
                                             LAMBDA p : TeamOf(p) # TeamOf(t.g.ball.owner)),
                                VPos(@, GoalOf(TeamOf(t.g.ball.owner)))))]
    ELSE t

\* lines 831-840: the leads; IndexError when zipped is too short
LeadRoles(t, zipped) ==
    IF Len(zipped) = 0 THEN Raise(t, "IndexError")
    ELSE IF ~Difficulty(t.g.difficulty).second_lead_enabled
    THEN [t EXCEPT !.g.players[zipped[1]].lead = LEAD_DISTANCE_1,
                   !.g.kickoff_player = None]
    ELSE IF Len(zipped) < 2
    THEN [t EXCEPT !.g.players[zipped[1]].lead = LEAD_DISTANCE_1,
                   !.err = "IndexError"]
    ELSE [t EXCEPT !.g.players[zipped[1]].lead = LEAD_DISTANCE_1,
                   !.g.players[zipped[2]].lead = LEAD_DISTANCE_2,
                   !.g.kickoff_player = None]

\* lines 790-840, after the goalie was chosen
OwnerRoles(t) == LeadRoles(t, Zipped(t.g))

\* lines 781-840: the roles of the tick
GameRoles(t) ==
    IF t.err # "none" THEN t
    ELSE IF t.g.ball.owner = None THEN RolesReset(t)
    ELSE OwnerRoles(GoalieRoles(RolesReset(t)))

\* lines 861-869, doubled
dist_key_weighted(g, owner, team_num, p) ==
    (IF owner # None /\ (g.players[p].y - g.ball.y) * (2 * team_num - 1) < 0 THEN 1 ELSE 2)
    * Length(<<g.players[p].x - g.ball.x, g.players[p].y - g.ball.y>>)

\* min(team's players, key = dist_key_weighted): the first minimum
SwitchTarget(g, owner, team_num) ==
    2 * (FirstMin([k \in 1 .. NUM_PLAYERS \div 2 |->
                     dist_key_weighted(g, owner, team_num, 2 * (k - 1) + team_num)]) - 1)
    + team_num

\* lines 851-872, with the result key of the team's controls.shoot()
SwitchOn(t, team_num, key) ==
    [t EXCEPT !.key_status = key[2],
              !.g.acp[team_num] = IF key[1]
                                  THEN SwitchTarget(t.g, t.g.ball.owner, team_num)
                                  ELSE @]

\* lines 848-872: manual switching of the active player of one team
SwitchTeam(t, team_num) ==
    IF ~t.g.human[team_num] THEN t
    ELSE SwitchOn(t, team_num,
                  key_just_pressed(t.keyboard, t.key_status, Controls(team_num).shoot))

\* lines 846-872
GameSwitch(t) ==
    IF t.err # "none" THEN t ELSE SwitchTeam(SwitchTeam(t, 0), 1)

\* lines 874-878; n is <<vec, distance>> from the ball to the camera
CameraMove(g, n) ==
    IF n[2] <= 8 * SCALE THEN <<g.ball.x, g.ball.y>>
    ELSE VSub(g.camera_focus, VScale(n[1], 8 * SCALE))
CameraEase(t) ==
    IF t.err # "none" THEN t
    ELSE [t EXCEPT !.g.camera_focus =
            CameraMove(t.g, safe_normalise(VSub(@, <<t.g.ball.x, t.g.ball.y>>)))]

\* the same tick with the ball updated before the players
GameUpdateBallFirst(g, keyboard, key_status, offset) ==
    CameraEase(GameSwitch(PlayersUpdate(BallUpdate(GameRoles(
        GameScore(Tick(g, keyboard, key_status), offset))))))

\* Game.update, lines 767-878, with the random offsets a reset would draw.
\* The result is the tick; when err is not "none", g is the game as the
\* exception left it.
GameUpdate(g, keyboard, key_status, offset) ==
    CameraEase(GameSwitch(BallUpdate(PlayersUpdate(GameRoles(
        GameScore(Tick(g, keyboard, key_status), offset))))))

(***************************************************************************)
(* The program: update(), called once a frame                              *)
(***************************************************************************)
VARIABLES
    state,             \* State.MENU, State.PLAY or State.GAME_OVER
    menu_state,        \* MenuState.NUM_PLAYERS, MenuState.DIFFICULTY or None
    menu_num_players,
    menu_difficulty,
    game,              \* the global game
    keyboard,          \* the keys held down during the next frame
    key_status,        \* the dictionary key_status
    crash,             \* the exception that ended the program, or "none"
    ev,                \* what the last call of Game.update did
    frame,             \* the number of frames so far
    script,            \* the input script the user follows
    rng,               \* the state of the random number generator
    holdoff,           \* per player, why and how many ticks ago its timer was set
    goal_age,          \* the ticks since the goal being celebrated, or None
    call               \* a function of the module called on its own, or NoCall

vars == <<state, menu_state, menu_num_players, menu_difficulty, game, keyboard,
          key_status, crash, ev, frame, script, rng, holdoff, goal_age, call>>

WIN_SCORE == 9

\* random_offset: the n-th number a reset draws from the generator in state k
Jitter(k, n) == (((33 + 2 * k) * 37 + n * 23) % (2 * RANDOM_OFFSET + 1)) - RANDOM_OFFSET
\* the pairs a reset draws for the home positions of the players
Offsets(k) == [i \in Roster |-> <<Jitter(k, 2 * i), Jitter(k, 2 * i + 1)>>]

\* the keyboard with the keys of the set held down
Pressed(held) == [key \in KeyNames |-> key \in held]

\* the keys held during frame f of the segments, a sequence of
\* <<frames, keys>>, from the k-th on; after the last segment no key is held
RECURSIVE Held(_, _, _)
Held(segments, k, f) ==
    IF k > Len(segments) THEN {}
    ELSE IF f < segments[k][1] THEN segments[k][2]
    ELSE Held(segments, k + 1, f - segments[k][1])

\* update() in State.MENU, lines 1019-1046, before game.update().  m is
\* [state, menu_state, menu_num_players, menu_difficulty, game, key_status]
MenuStart(m, new_game) ==
    [m EXCEPT !.state = "PLAY", !.menu_state = "None", !.game = new_game]
\* lines 1035-1046, with the results of key_just_pressed for DOWN and UP
MenuSelect(m, down, up) ==
    [m EXCEPT
       !.key_status = IF down[1] THEN down[2] ELSE up[2],
       !.menu_num_players =
           IF (down[1] \/ up[1]) /\ m.menu_state = "NUM_PLAYERS"
           THEN (IF @ = 1 THEN 2 ELSE 1) ELSE @,
       !.menu_difficulty =
           IF (down[1] \/ up[1]) /\ m.menu_state # "NUM_PLAYERS"
           THEN (@ + (IF down[1] THEN 1 ELSE -1)) % 3 ELSE @]
MenuArrows(m, kb, down) == MenuSelect(m, down, key_just_pressed(kb, down[2], "UP"))
\* lines 1019-1046, with the result of key_just_pressed for SPACE; offset is
\* what the constructor of a new game draws
MenuKeys(m, kb, space, offset) ==
    IF ~space[1] THEN MenuArrows(m, kb, key_just_pressed(kb, space[2], "DOWN"))
    ELSE IF m.menu_state # "NUM_PLAYERS"
    THEN MenuStart([m EXCEPT !.key_status = space[2]],
                   NewGame([team \in 0 .. 1 |-> team = 0], m.menu_difficulty, offset))
    ELSE IF m.menu_num_players = 1
    THEN [m EXCEPT !.key_status = space[2], !.menu_state = "DIFFICULTY"]
    ELSE MenuStart([m EXCEPT !.key_status = space[2]],
                   NewGame([team \in 0 .. 1 |-> TRUE], 2, offset))

\* bounds of the model
MaxFrames == 520
MaxIdleFrames == 1040
MaxJitter == 1

\* The keys the user holds down, frame by frame, as <<frames, keys>>:
\* through the menu into a one-player match on medium
StartOnePlayer ==
    << <<1, {"SPACE"}>>, <<1, {}>>, <<1, {"DOWN"}>>, <<1, {"SPACE"}>> >>
\* through the menu into a two-player match
StartTwoPlayers ==
    << <<1, {"DOWN"}>>, <<1, {"SPACE"}>>, <<1, {}>> >>
\* team 0 kicks off: its kick-off player walks right, onto the ball
KickOff == << <<6, {"RIGHT"}>> >>
\* the same, hitting the shoot key as the player reaches the ball
OneTouch == << <<3, {"RIGHT"}>>, <<1, {"RIGHT", "SPACE"}>> >>
\* player 1 runs upfield and hits its shoot key every so often
Attack ==
    << <<40, {"UP"}>>, <<1, {"SPACE"}>>, <<40, {"UP"}>>, <<1, {"SPACE"}>>,
       <<40, {"UP", "LEFT"}>>, <<1, {"SPACE"}>>, <<40, {"UP"}>>, <<1, {"SPACE"}>>,
       <<40, {"UP", "RIGHT"}>>, <<1, {"SPACE"}>>, <<40, {"UP"}>>, <<1, {"SPACE"}>> >>
\* the same with player 2 running the other way
AttackBoth ==
    << <<40, {"UP", "S"}>>, <<1, {"SPACE", "LSHIFT"}>>,
       <<40, {"UP", "S"}>>, <<1, {"SPACE", "LSHIFT"}>>,
       <<40, {"UP", "S", "A"}>>, <<1, {"SPACE", "LSHIFT"}>>,
       <<40, {"UP", "S"}>>, <<1, {"SPACE", "LSHIFT"}>>,
       <<40, {"UP", "S", "D"}>>, <<1, {"SPACE", "LSHIFT"}>> >>
\* player 1 leaves the match to the computer and hits SPACE late, twice
Watch ==
    << <<4, {}>> >> \o KickOff
    \o << <<470, {}>>, <<1, {"SPACE"}>>, <<34, {}>>, <<1, {"SPACE"}>> >>

\* before the kick-off, player 1 walks its kick-off player up to the goal
\* line, right to the corner of the goal zone, against the zone from two
\* sides and behind the goal line, while player 2 holds its keys down
Wander ==
    << <<188, {"UP", "S"}>>, <<44, {"RIGHT", "D"}>>, <<2, {"UP", "LEFT", "S"}>>,
       <<1, {"RIGHT"}>>, <<5, {"UP"}>>, <<3, {"LEFT", "D"}>> >>
\* after the kick-off player 1 walks a few steps down with the ball; then
\* both players leave the keys alone
Idle == KickOff \o << <<20, {"DOWN"}>> >>
\* through the menu into a one-player match on easy
StartOnePlayerEasy == << <<1, {"SPACE"}>>, <<1, {}>>, <<1, {"SPACE"}>> >>
\* player 1 takes the ball up the pitch to the goal line, a little to the
\* right of the goal, and kicks it while walking up
Corner ==
    KickOff \o << <<187, {"UP"}>>, <<3, {"UP", "RIGHT"}>>, <<12, {"RIGHT"}>>,
                  <<1, {"SPACE", "UP"}>> >>

\* The runs: where the program is when the run begins ("start": the module
\* was just loaded; "match point": a one-player match on easy, at the kick-off
\* after the goal that brought team 1 to WIN_SCORE - 1), and the keys held
\* from then on, for so many frames.
Scripts ==
    << [from |-> "start", keys |-> <<>>, frames |-> MaxFrames],
       [from |-> "match point", keys |-> Watch, frames |-> MaxFrames],
       [from |-> "start",
        keys |-> StartOnePlayer \o KickOff \o << <<1, {"SPACE"}>> >> \o Attack,
        frames |-> MaxFrames],
       [from |-> "start",
        keys |-> StartTwoPlayers \o KickOff
                 \o << <<3, {"UP"}>>, <<1, {"SPACE"}>> >> \o AttackBoth,
        frames |-> MaxFrames],
       [from |-> "start", keys |-> StartOnePlayer \o OneTouch, frames |-> MaxFrames],
       [from |-> "start", keys |-> StartTwoPlayers \o Wander, frames |-> MaxFrames],
       [from |-> "start", keys |-> StartTwoPlayers \o Idle, frames |-> MaxIdleFrames],
       [from |-> "start", keys |-> StartOnePlayerEasy \o Corner, frames |-> MaxFrames] >>

\* no function is being called on its own
NoCall == [fn |-> "none"]

Menu == [state |-> state, menu_state |-> menu_state,
         menu_num_players |-> menu_num_players, menu_difficulty |-> menu_difficulty,
         game |-> game, key_status |-> key_status]
NoHoldoff == [p \in Roster |-> [why |-> "none", ago |-> 0]]

\* the holdoff history after a tick that did e
HoldoffAfter(h, e) ==
    [p \in Roster |->
        IF p = e.kicker THEN [why |-> "kick", ago |-> 0]
        ELSE IF p = e.lost \/ \E k \in 1 .. Len(e.acquired) : e.acquired[k][1] = p
        THEN [why |-> "lost", ago |-> 0]
        ELSE IF e.reset THEN [why |-> "none", ago |-> 0]
        ELSE IF h[p].why = "none" THEN h[p]
        ELSE [h[p] EXCEPT !.ago = @ + 1]]
GoalAgeAfter(a, e) ==
    IF e.goal THEN 0 ELSE IF e.reset \/ a = None THEN None ELSE a + 1

\* the module's start, lines 1104-1118: the menu, over a game between two
\* computer teams
ProgramStart(seed) ==
    /\ state = "MENU"
    /\ menu_state = "NUM_PLAYERS"
    /\ game = NewGame([team \in 0 .. 1 |-> FALSE], 2, Offsets(seed))
    /\ ev = NoEvent

\* A match in progress: the end of the tick that reset a one-player match
\* on easy after a goal of team 1, its eighth
MatchPoint(seed) ==
    /\ state = "PLAY"
    /\ menu_state = "None"
    /\ \E u \in {GameUpdate([NewGame([team \in 0 .. 1 |-> team = 0], 0, Offsets(seed))
                                 EXCEPT !.score = [team \in 0 .. 1 |->
                                                     team * (WIN_SCORE - 1)],
                                        !.score_timer = 1],
                              Pressed({}), [key \in KeyNames |-> FALSE],
                              Offsets(seed))} :
          /\ game = u.g
          /\ ev = u.ev

Init ==
    /\ script \in 1 .. Len(Scripts)
    /\ \E seed \in 0 .. MaxJitter :
          /\ rng = seed + 1
          /\ IF Scripts[script].from = "start"
             THEN ProgramStart(seed) ELSE MatchPoint(seed)
    /\ menu_num_players = 1
    /\ menu_difficulty = 0
    /\ key_status = [key \in KeyNames |-> FALSE]
    /\ crash = "none"
    /\ frame = 0
    /\ keyboard = Pressed(Held(Scripts[script].keys, 1, 0))
    /\ holdoff = NoHoldoff
    /\ goal_age = None
    /\ call = NoCall

\* the frame is over: the user goes on with the script
NextFrame ==
    /\ frame' = frame + 1
    /\ script' = script
    /\ keyboard' = Pressed(Held(Scripts[script].keys, 1, frame + 1))
    /\ call' = call

\* game.update() was called on m.game, with the outcome u
Updated(m, u, h, a) ==
    /\ state' = m.state
    /\ menu_state' = m.menu_state
    /\ menu_num_players' = m.menu_num_players
    /\ menu_difficulty' = m.menu_difficulty
    /\ game' = u.g
    /\ key_status' = u.key_status
    /\ crash' = u.err
    /\ ev' = u.ev
    /\ rng' = rng + (IF m.state # state THEN 1 ELSE 0) + (IF u.ev.reset THEN 1 ELSE 0)
    /\ holdoff' = HoldoffAfter(h, u.ev)
    /\ goal_age' = GoalAgeAfter(a, u.ev)

\* update() in State.MENU, lines 1018-1048
UpdateMenu ==
    /\ crash = "none" /\ frame < Scripts[script].frames
    /\ state = "MENU"
    /\ \E m \in {MenuKeys(Menu, keyboard,
                          key_just_pressed(keyboard, key_status, "SPACE"),
                          Offsets(rng))} :
         \E u \in {GameUpdate(m.game, keyboard, m.key_status, Offsets(rng))} :
            Updated(m, u, IF m.state = "PLAY" THEN NoHoldoff ELSE holdoff,
                    IF m.state = "PLAY" THEN None ELSE goal_age)
    /\ NextFrame

\* the same test one tick later, after the reset
GameIsOverAfterReset ==
    Max2(game.score[0], game.score[1]) = WIN_SCORE /\ game.score_timer = 0

\* line 1052: the first player to 9 has won
GameIsOver ==
    Max2(game.score[0], game.score[1]) = WIN_SCORE /\ game.score_timer = 1

\* update() in State.PLAY, line 1055
UpdatePlay ==
    /\ crash = "none" /\ frame < Scripts[script].frames
    /\ state = "PLAY" /\ ~GameIsOver
    /\ \E u \in {GameUpdate(game, keyboard, key_status, Offsets(rng))} :
          Updated(Menu, u, holdoff, goal_age)
    /\ NextFrame

\* update() in State.PLAY, line 1053
EndPlay ==
    /\ crash = "none" /\ frame < Scripts[script].frames
    /\ state = "PLAY" /\ GameIsOver
    /\ state' = "GAME_OVER"
    /\ ev' = NoEvent
    /\ UNCHANGED <<menu_state, menu_num_players, menu_difficulty, game, key_status,
                   crash, rng, holdoff, goal_age>>
    /\ NextFrame

\* update() in State.GAME_OVER, lines 1057-1062
UpdateGameOver ==
    /\ crash = "none" /\ frame < Scripts[script].frames
    /\ state = "GAME_OVER"
    /\ key_status' = key_just_pressed(keyboard, key_status, "SPACE")[2]
    /\ IF key_just_pressed(keyboard, key_status, "SPACE")[1]
       THEN /\ state' = "MENU"
            /\ menu_state' = "NUM_PLAYERS"
            /\ game' = NewGame([team \in 0 .. 1 |-> FALSE], 2, Offsets(rng))
            /\ rng' = rng + 1
            /\ holdoff' = NoHoldoff
            /\ goal_age' = None
       ELSE UNCHANGED <<state, menu_state, game, rng, holdoff, goal_age>>
    /\ ev' = NoEvent
    /\ UNCHANGED <<menu_num_players, menu_difficulty, crash>>
    /\ NextFrame

Next == UpdateMenu \/ UpdatePlay \/ EndPlay \/ UpdateGameOver

Spec == Init /\ [][Next]_vars

(***************************************************************************)
(* The functions of the module, called on their own                        *)
(*                                                                         *)
(* call is NoCall, or the record of one call: fn, the arguments, and the   *)
(* result (for targetable and cost) or the local variables of the loop     *)
(* and whether it has returned (for steps and the interception loop of     *)
(* Player.update).                                                         *)
(***************************************************************************)
\* bounds of the calls: positions are drawn from a grid of
\* (2 * MaxGrid + 1)^2 points, distances from 0 to MaxDistance * 100 pixels,
\* speeds up to 2^MaxSpeed times KICK_STRENGTH
MaxGrid == 2
MaxDistance == 20
MaxSpeed == 3

\* the program's variables
prog == <<state, menu_state, menu_num_players, menu_difficulty, game, keyboard,
          key_status, crash, ev, frame, script, rng, holdoff, goal_age>>

\* the offsets of the grid, 120 pixels apart
Grid == {<<dx * 120 * SCALE, dy * 120 * SCALE>> : dx, dy \in -MaxGrid .. MaxGrid}

\* the players of a new game
NewPlayers == NewGame([team \in 0 .. 1 |-> FALSE], 2, Offsets(0)).players
\* the same, those of DOMAIN placed at placed[i] = <<x, y, dir>>
Placed(placed) ==
    [i \in Roster |->
        IF i \in DOMAIN placed
        THEN [NewPlayers[i] EXCEPT !.x = placed[i][1], !.y = placed[i][2],
                                  !.dir = placed[i][3]]
        ELSE NewPlayers[i]]

\* targetable(target, source), lines 189-218, with source facing dir at
\* target's position less off; when blocked, a player of the other team
\* than target's stands half-way
CallTargetable ==
    /\ call = NoCall
    /\ \E source \in {0, 1}, target \in {2, 3, GoalOf(0), GoalOf(1)}, dir \in 0 .. 7,
          off \in Grid, blocked \in BOOLEAN, human \in BOOLEAN :
          LET tpos == IF IsGoal(target) THEN GoalPos(TeamOf(target))
                      ELSE <<HALF_LEVEL_W, HALF_LEVEL_H>>
              spos == VSub(tpos, off)
              mid == <<(tpos[1] + spos[1]) \div 2, (tpos[2] + spos[2]) \div 2>>
              ps == Placed((source :> <<spos[1], spos[2], dir>>)
                           @@ (IF IsGoal(target) THEN <<>>
                               ELSE target :> <<tpos[1], tpos[2], 0>>)
                           @@ (IF blocked
                               THEN (5 - TeamOf(target)) :> <<mid[1], mid[2], 0>>
                               ELSE <<>>))
          IN call' = [fn |-> "targetable", target |-> target, source |-> source,
                      players |-> ps, human |-> [team \in 0 .. 1 |-> human],
                      result |-> targetable(target, source, ps,
                                            [team \in 0 .. 1 |-> human])]
    /\ UNCHANGED prog

\* steps(distance), lines 165-168: the call
CallSteps ==
    /\ call = NoCall
    /\ \E distance \in {0, 1} \cup {k * 100 * SCALE : k \in 1 .. MaxDistance} :
          call' = [fn |-> "steps", arg |-> distance, distance |-> distance,
                   steps |-> 0, vel |-> KICK_STRENGTH, returned |-> FALSE]
    /\ UNCHANGED prog

\* the loop of steps with a ball that does not slow down
StepsLoopWithoutDrag ==
    /\ call.fn = "steps" /\ ~call.returned
    /\ call.distance > 0 /\ 4 * call.vel > SCALE
    /\ call' = [call EXCEPT !.distance = @ - call.vel, !.steps = @ + 1]
    /\ UNCHANGED prog

\* lines 170-171: one iteration of the loop of steps
StepsLoop ==
    /\ call.fn = "steps" /\ ~call.returned
    /\ call.distance > 0 /\ 4 * call.vel > SCALE
    /\ call' = [call EXCEPT !.distance = @ - call.vel, !.steps = @ + 1,
                            !.vel = Quot(@ * DRAG_PCT, 100)]
    /\ UNCHANGED prog

\* lines 170-173: the loop of steps ends, and steps returns
StepsReturn ==
    /\ call.fn = "steps" /\ ~call.returned
    /\ ~(call.distance > 0 /\ 4 * call.vel > SCALE)
    /\ call' = [call EXCEPT !.returned = TRUE]
    /\ UNCHANGED prog

\* the speeds of a ball, per axis: up to 2^MaxSpeed times KICK_STRENGTH
RECURSIVE Doubled(_, _)
Doubled(v, k) == IF k = 0 THEN v ELSE Doubled(2 * v, k - 1)
Speeds == {1, SCALE \div 2} \cup {Doubled(KICK_STRENGTH, k) : k \in 0 .. MaxSpeed}

\* Player.update, lines 618-620: the interception loop begins, for a player
\* at vpos and a ball at the centre spot with velocity vel, sideways or
\* down the pitch
CallIntercept ==
    /\ call = NoCall
    /\ \E off \in Grid, speed \in Speeds, sx \in -1 .. 1, sy \in 0 .. 1 :
          call' = [fn |-> "intercept",
                   vpos |-> VAdd(<<HALF_LEVEL_W, HALF_LEVEL_H>>, off),
                   ball_vel |-> <<sx * speed, sy * speed>>,
                   target |-> <<HALF_LEVEL_W, HALF_LEVEL_H>>,
                   vel |-> <<sx * speed, sy * speed>>,
                   frame |-> 0, returned |-> FALSE]
    /\ UNCHANGED prog

\* line 627: the condition of the interception loop
InterceptGoesOn ==
    IF LongerThan(VSub(call.target, call.vpos),
                  PLAYER_INTERCEPT_BALL_SPEED * call.frame + DRIBBLE_DIST_X)
    THEN (IF LongerThan(call.vel, SCALE \div 2) THEN TRUE ELSE FALSE)
    ELSE FALSE

\* the loop with a ball that does not slow down
InterceptLoopWithoutDrag ==
    /\ call.fn = "intercept" /\ ~call.returned
    /\ InterceptGoesOn
    /\ call' = [call EXCEPT !.target = VAdd(@, call.vel), !.frame = @ + 1]
    /\ UNCHANGED prog

\* lines 627-630: one iteration of the interception loop
InterceptLoop ==
    /\ call.fn = "intercept" /\ ~call.returned
    /\ InterceptGoesOn
    /\ call' = [call EXCEPT !.target = VAdd(@, call.vel),
                            !.vel = <<Quot(@[1] * DRAG_PCT, 100),
                                      Quot(@[2] * DRAG_PCT, 100)>>,
                            !.frame = @ + 1]
    /\ UNCHANGED prog

\* lines 627-632: the interception loop ends
InterceptReturn ==
    /\ call.fn = "intercept" /\ ~call.returned
    /\ ~InterceptGoesOn
    /\ call' = [call EXCEPT !.returned = TRUE]
    /\ UNCHANGED prog

\* cost(pos, team), lines 427-440, among the players of a new game: at the
\* points of the grid, at the entrances of the goals, and where a player of
\* either team stands
CallCost ==
    /\ call = NoCall
    /\ \E team \in 0 .. 1 :
       \E pos \in {VAdd(<<HALF_LEVEL_W, HALF_LEVEL_H>>, off) : off \in Grid}
                  \cup {OwnGoalPos(0), OwnGoalPos(1)}
                  \cup {VPos(Placed(<<>>), p) : p \in {0, 1}} :
          call' = [fn |-> "cost", pos |-> pos, team |-> team, players |-> Placed(<<>>),
                   err |-> IF CostDividesByZero(pos, team)
                           THEN "ZeroDivisionError" ELSE "none",
                   result |-> IF CostDividesByZero(pos, team) THEN None
                              ELSE cost(pos, team, 0, Placed(<<>>))]
    /\ UNCHANGED prog

\* the module was just loaded, and no function has been called
CallsInit ==
    /\ script = 1 /\ rng = 1 /\ ProgramStart(0)
    /\ menu_num_players = 1
    /\ menu_difficulty = 0
    /\ key_status = [key \in KeyNames |-> FALSE]
    /\ crash = "none"
    /\ frame = 0
    /\ keyboard = Pressed({})
    /\ holdoff = NoHoldoff
    /\ goal_age = None
    /\ call = NoCall

CallsNext ==
    \/ CallTargetable
    \/ CallSteps \/ StepsLoop \/ StepsReturn
    \/ CallIntercept \/ InterceptLoop \/ InterceptReturn
    \/ CallCost

\* a loop that has begun goes on running until it returns
Calls ==
    /\ CallsInit /\ [][CallsNext]_vars
    /\ WF_vars(StepsLoop) /\ WF_vars(StepsReturn)
    /\ WF_vars(InterceptLoop) /\ WF_vars(InterceptReturn)

(***************************************************************************)
(* Properties                                                              *)
(***************************************************************************)
\* Game.update ran on `game` in this step and gave game': a frame in the
\* menu or in play that did not start a new game
Ticked == state' = state /\ state # "GAME_OVER"
BallPos(g) == <<g.ball.x, g.ball.y>>
\* the player p of game g is within the capture radius of the ball
InReach(g, p) ==
    Within(<<g.players[p].x - g.ball.x, g.players[p].y - g.ball.y>>, DRIBBLE_DIST_X)
OtherTeam(team) == IF team = 0 THEN 1 ELSE 0

OwnerInRoster == game.ball.owner = None \/ game.ball.owner \in Roster
\* between two consecutive tick ends the ball went from a player to another
\* player of the same team
HandedOver ==
    /\ Ticked
    /\ game.ball.owner # None /\ game'.ball.owner # None
    /\ game'.ball.owner # game.ball.owner
    /\ TeamOf(game'.ball.owner) = TeamOf(game.ball.owner)

\* C1 as stated: after every tick the owner is None or a player of the
\* roster, and the ball never goes from a player of a team to another player
\* of that team without a tick end in between at which it is free or with
\* the other team.
C1_Original == []OwnerInRoster /\ [][~HandedOver]_vars

\* C1, amended: after every tick the owner is None or a player of the roster;
\* when the ball is with another player of the same team at the next tick
\* end, then inside that tick the owner dribbled it off the pitch or a player
\* of the other team took it in the acquisition pass.
C1_Amended ==
    /\ []OwnerInRoster
    /\ [][HandedOver =>
            \/ ev'.lost = game.ball.owner
            \/ \E k \in 1 .. Len(ev'.acquired) :
                  TeamOf(ev'.acquired[k][2]) # TeamOf(game.ball.owner)]_vars
\* a tick in which the owner was tackled and a team mate tackled the tackler
C1_Witness ==
    /\ Len(ev.acquired) = 2
    /\ ev.acquired[1][1] # None
    /\ game.ball.owner = ev.acquired[2][2]
    /\ TeamOf(ev.acquired[1][1]) = TeamOf(game.ball.owner)

\* no later transfer of the pass went to the team of the k-th
LastOfTeam(acquired, k) ==
    \A j \in k + 1 .. Len(acquired) : TeamOf(acquired[j][2]) # TeamOf(acquired[k][2])
\* the k-th transfer of the tick's acquisition pass, from `from` to `to`
Transfer(k, from, to) ==
    /\ to \in Roster
    /\ InReach(game', to)
    /\ ev'.reset \/ game.players[to].timer - 1 < 0
    /\ from = IF k > 1 THEN ev'.acquired[k - 1][2]
              ELSE IF ev'.reset \/ ev'.lost # None THEN None
              ELSE game.ball.owner
    /\ from = None \/ TeamOf(from) # TeamOf(to)
    /\ from # None => game'.players[from].timer = HOLDOFF_LOST
    /\ k = Len(ev'.acquired) => game'.ball.owner = to \/ ev'.kicker = to
    /\ (/\ LastOfTeam(ev'.acquired, k)
        /\ ev'.kicker = None \/ TeamOf(ev'.kicker) # TeamOf(to)
        /\ ~game'.human[TeamOf(to)] \/ game'.ball.owner = to)
       => game'.acp[TeamOf(to)] = to

\* C2: a player takes the ball in the acquisition pass only within the
\* capture radius, with its hold-off timer below 0, and from nobody or from a
\* player of the other team; the previous owner gets the hold-off 60, and the
\* taker is its team's active_control_player (until a kick or a manual switch
\* of the same tick moves the control on).
C2_Pass ==
    [][Ticked => \A k \in 1 .. Len(ev'.acquired) :
                    Transfer(k, ev'.acquired[k][1], ev'.acquired[k][2])]_vars
\* a tackle: the ball was taken from its owner
C2_Witness ==
    /\ Len(ev.acquired) > 0
    /\ ev.acquired[1][1] # None
    /\ game.ball.owner = ev.acquired[Len(ev.acquired)][2]
    /\ game.players[ev.acquired[1][1]].timer = HOLDOFF_LOST

HoldoffOf(h) == IF h.why = "kick" THEN HOLDOFF_KICK ELSE HOLDOFF_LOST
\* p took the ball in the pass of the tick in which it had already lost it
TookAfterLosing(p) ==
    \E k \in 1 .. Len(ev.acquired) :
       /\ ev.acquired[k][2] = p
       /\ \/ ev.lost = p
          \/ \E j \in 1 .. k - 1 : ev.acquired[j][1] = p
\* the player p, whose timer was set h.ago ticks ago
HeldOff(p, h) ==
    /\ game.players[p].timer = HoldoffOf(h) - h.ago
    /\ h.ago <= HoldoffOf(h)
         => /\ game.ball.owner # p
            /\ h.ago > 0 => \A k \in 1 .. Len(ev.acquired) : ev.acquired[k][2] # p
            /\ h.ago = 0 => ~TookAfterLosing(p) /\ ev.kicker \in {None, p}
    /\ h.ago > HoldoffOf(h) => game.players[p].timer < 0

\* C3: a kick sets the kicker's timer to 10, the loss of the ball sets the
\* loser's to 60; the player does not get the ball in the rest of that tick
\* nor in the next 10 (60) ticks, and from the 11th (61st) tick on its timer
\* is below 0, so that it can.
C3_Holdoff ==
    crash = "none" =>
       \A p \in Roster : holdoff[p].why # "none" => HeldOff(p, holdoff[p])
\* a player takes the ball in the 61st tick after it lost it
C3_Witness ==
    \E p \in Roster :
       /\ holdoff[p] = [why |-> "lost", ago |-> HOLDOFF_LOST + 1]
       /\ \E k \in 1 .. Len(ev.acquired) : ev.acquired[k][2] = p

\* the ball of game g lies still on the pitch, free, and the player p is
\* within the capture radius with its hold-off timer at 0 or below
AtRestInReach(g, p) ==
    /\ g.ball.owner = None /\ g.ball.vx = 0 /\ g.ball.vy = 0
    /\ Abs(g.ball.x - HALF_LEVEL_W) <= HALF_PITCH_W
    /\ Abs(g.ball.y - HALF_LEVEL_H) <= HALF_PITCH_H
    /\ InReach(g, p)
    /\ g.players[p].timer <= 0
\* the dribble position in front of the player p
DribbleAnchor(p) ==
    << p.x + Quot(DRIBBLE_DIST_X * sin(p.dir), UNIT),
       p.y - Quot(DRIBBLE_DIST_Y * cos(p.dir), UNIT) >>

\* C4 as stated: a player in reach of the resting free ball, its timer at 0
\* or below, owns the ball after the next tick, and the ball is at the
\* dribble position in front of it.
C4_Original ==
    [][\A p \in Roster :
          Ticked /\ AtRestInReach(game, p)
          => /\ game'.ball.owner = p
             /\ BallPos(game') = DribbleAnchor(game'.players[p])]_vars

\* the tick left the ball where it was; p, if still in reach after its own
\* move, took it, unless a team mate earlier in the roster holds it
PickedUp(p) ==
    /\ BallPos(game') = BallPos(game)
    /\ InReach(game', p)
         => \E k \in 1 .. Len(ev'.acquired) :
               \/ ev'.acquired[k][2] = p
               \/ /\ ev'.acquired[k][2] < p
                  /\ TeamOf(ev'.acquired[k][2]) = TeamOf(p)
\* the ball moved to the average of its position and the dribble position
\* of its owner o
Dribbled(o) ==
    /\ game'.ball.x = avg(game.ball.x, DribbleAnchor(game'.players[o])[1])
    /\ game'.ball.y = avg(game.ball.y, DribbleAnchor(game'.players[o])[2])

\* C4, amended: the next tick leaves the resting ball where it is, and the
\* player takes it in the acquisition pass if it is still in reach (unless a
\* team mate earlier in the roster took it); an owned ball then moves, tick
\* by tick, to the average of its position and the dribble position in front
\* of its owner.
C4_Amended ==
    [][Ticked /\ crash' = "none" /\ ~ev'.reset
       => /\ \A p \in Roster : AtRestInReach(game, p) => PickedUp(p)
          /\ game.ball.owner # None /\ ev'.lost = None
               => Dribbled(game.ball.owner)]_vars
\* a player took the resting ball as its hold-off ran out, and the ball is
\* not at the dribble position
C4_Witness ==
    \E p \in Roster :
       /\ ev.acquired = << <<None, p>> >>
       /\ game.ball.owner = p
       /\ holdoff[p] = [why |-> "lost", ago |-> HOLDOFF_LOST + 1]
       /\ game.ball.vx = 0 /\ game.ball.vy = 0
       /\ BallPos(game) # DribbleAnchor(game.players[p])

\* the last tick saw a kick by a player of a team with controls
HumanKick == ev.kicker # None /\ game.human[TeamOf(ev.kicker)]
\* target is the targetable entity of the kicker's team nearest the kicker,
\* or None when there is none
NearestTargetable(target, kicker) ==
    IF target = None
    THEN \A e \in Roster \cup {GoalOf(0), GoalOf(1)} :
            ~(TeamOf(e) = TeamOf(kicker)
              /\ targetable(e, kicker, game.players, game.human))
    ELSE /\ TeamOf(target) = TeamOf(kicker)
         /\ targetable(target, kicker, game.players, game.human)
         /\ \A e \in Roster \cup {GoalOf(0), GoalOf(1)} :
               TeamOf(e) = TeamOf(kicker)
               /\ targetable(e, kicker, game.players, game.human)
               => DistSq(VPos(game.players, target), VPos(game.players, kicker))
                  <= DistSq(VPos(game.players, e), VPos(game.players, kicker))
\* the state a kick along the unit vector vec leaves
Kicked(kicker, vec) ==
    /\ game.ball.owner = None
    /\ game.players[kicker].timer = HOLDOFF_KICK
    /\ NearestTargetable(ev.target, kicker)
    /\ <<game.ball.vx, game.ball.vy>> = VScale(vec, KICK_STRENGTH)
\* <<unit vector, distance>> from the ball to pos
Toward(pos) == safe_normalise(VSub(pos, BallPos(game)))

\* C5 as stated: after the kick of a human team's owner the ball is free, the
\* kicker's timer is 10, and the velocity is KICK_STRENGTH times the unit
\* vector toward the nearest targetable team mate or goal, or along the
\* kicker's facing when there is none.
C5_Original ==
    HumanKick =>
       Kicked(ev.kicker,
              IF ev.target = None THEN angle_to_vec(game.players[ev.kicker].dir)
              ELSE Toward(VPos(game.players, ev.target))[1])

\* from the ball to the point r ahead of target, along the kicker's facing
Ahead(target, kicker, r) ==
    Toward(VAdd(VPos(game.players, target),
                VScale(angle_to_vec(game.players[kicker].dir), r)))
\* the lead after i more refinements of the lead r
RECURSIVE Lead(_, _, _, _)
Lead(target, kicker, r, i) ==
    IF i = 0 \/ r < 0 THEN r
    ELSE Lead(target, kicker,
              HUMAN_PLAYER_WITHOUT_BALL_SPEED * steps(Ahead(target, kicker, r)[2]), i - 1)
C5_Kick ==
    HumanKick =>
       Kicked(ev.kicker,
              IF ev.target = None THEN angle_to_vec(game.players[ev.kicker].dir)
              ELSE IF IsGoal(ev.target) THEN Toward(VPos(game.players, ev.target))[1]
              ELSE Ahead(ev.target, ev.kicker, Lead(ev.target, ev.kicker, 0, 7))[1])
\* the owner o is of a team with controls whose shoot key goes down in the
\* coming frame
ShootPending(o) ==
    /\ o # None
    /\ game.human[TeamOf(o)]
    /\ keyboard[Controls(TeamOf(o)).shoot] /\ ~key_status[Controls(TeamOf(o)).shoot]
C5_Pending ==
    [][Ticked /\ crash' = "none" /\ ShootPending(game.ball.owner)
       => \/ ev'.kicker = game.ball.owner
          \/ ev'.reset
          \/ ev'.lost = game.ball.owner
          \/ \E k \in 1 .. Len(ev'.acquired) : ev'.acquired[k][1] = game.ball.owner]_vars

\* C5, amended: when the shoot key of a human team goes down while it owns
\* the ball, the owner kicks in that tick unless it loses the ball earlier in
\* the tick; after the kick the ball is free, the kicker's timer is 10 and the
\* velocity is KICK_STRENGTH times the unit vector from the ball to the aim
\* point: the goal, or the point ahead of the team mate along the kicker's
\* facing by the lead of the eighth iteration, or along the kicker's facing
\* when nothing is targetable.
C5_Amended == []C5_Kick /\ C5_Pending
\* a human kick at a team mate
C5_Witness == HumanKick /\ ev.target # None /\ IsPlayer(ev.target)

\* the home position of player i before the random offset, in pixels
HomeOf(i) ==
    IF TeamOf(i) = 0 THEN PLAYER_START_POS[(i \div 2) + 1]
    ELSE << LEVEL_W \div SCALE - PLAYER_START_POS[(i \div 2) + 1][1],
            LEVEL_H \div SCALE - PLAYER_START_POS[(i \div 2) + 1][2] >>
\* p is player i as the reset made it, one Player.update later
NewInFormation(p, i) ==
    /\ Abs(p.hx - HomeOf(i)[1] * SCALE) <= RANDOM_OFFSET * SCALE
    /\ Abs(p.hy - HomeOf(i)[2] * SCALE) <= RANDOM_OFFSET * SCALE
    /\ p.timer = -1 /\ p.lead = None /\ p.mark = Peer(i)
\* g at the end of the tick that reset it, kicks_off the player to kick off
AtKickOff(g, kicks_off) ==
    /\ g.kickoff_player = kicks_off
    /\ g.ball = [x |-> HALF_LEVEL_W, y |-> HALF_LEVEL_H, vx |-> 0, vy |-> 0,
                 owner |-> None, timer |-> -1]
    /\ DOMAIN g.players = Roster
    /\ \A i \in Roster :
          /\ NewInFormation(g.players[i], i)
          /\ i # kicks_off
               => /\ g.players[i].x = g.players[i].hx
                  /\ g.players[i].y = g.players[i].hy \div 2 + (550 - 400 * TeamOf(i)) * SCALE
    /\ Abs(g.players[kicks_off].x - (HALF_LEVEL_W - 30 * SCALE + kicks_off * 60 * SCALE))
          <= HUMAN_PLAYER_WITHOUT_BALL_SPEED
    /\ Abs(g.players[kicks_off].y - HALF_LEVEL_H) <= HUMAN_PLAYER_WITHOUT_BALL_SPEED
C6_Freeze ==
    goal_age # None => goal_age < SCORE_FREEZE /\ game.score_timer = SCORE_FREEZE - goal_age

\* C6: the tick that resets the match is exactly the 60th tick after the
\* goal; the reset keeps the scores and leaves a new roster in kick-off
\* formation, a new ball at rest at the centre without owner, and the first
\* player of the team that did not score as kickoff_player.
C6_Reset ==
    /\ []C6_Freeze
    /\ [][Ticked =>
            /\ ev'.reset <=> goal_age = SCORE_FREEZE - 1
            /\ ev'.reset => /\ game'.score = game.score
                            /\ AtKickOff(game', OtherTeam(game.scoring_team))]_vars
\* the end of a tick that reset the match after a goal
C6_Witness ==
    /\ ev.reset /\ frame > 0
    /\ game.score[0] + game.score[1] > 0
    /\ game.kickoff_player = OtherTeam(game.scoring_team)

\* the tick on g counts a goal
Counted(g) == g.score_timer - 1 < 0 /\ Abs(g.ball.y - HALF_LEVEL_H) > HALF_PITCH_H

\* C7: a tick counts a goal exactly when score_timer, decremented, is below 0
\* and the ball is beyond a goal line; the goal adds 1 to the score of team 0
\* at the top end and of team 1 at the bottom end, and sets score_timer to 60;
\* no other tick changes a score, and none does between a goal and the reset.
C7_Goal ==
    [][Ticked =>
         /\ IF Counted(game)
            THEN /\ game'.score = [game.score EXCEPT
                                     ![IF game.ball.y < HALF_LEVEL_H THEN 0 ELSE 1] = @ + 1]
                 /\ game'.score_timer = SCORE_FREEZE
                 /\ ev'.goal
            ELSE game'.score = game.score /\ ~ev'.goal
         /\ goal_age # None => ~Counted(game)]_vars
\* the end of a tick that counted a goal
C7_Witness ==
    /\ ev.goal /\ goal_age = 0
    /\ game.score_timer = SCORE_FREEZE
    /\ game.score[game.scoring_team] > 0

C8_Play ==
    /\ state = "PLAY" => /\ \A team \in 0 .. 1 : game.score[team] <= WIN_SCORE
                         /\ Max2(game.score[0], game.score[1]) = WIN_SCORE
                              => goal_age # None /\ ~ev.reset
    /\ state = "GAME_OVER" => /\ Max2(game.score[0], game.score[1]) = WIN_SCORE
                              /\ game.score_timer = 1
C8_End ==
    /\ (state = "PLAY" /\ Max2(game.score[0], game.score[1]) = WIN_SCORE
        /\ game.score_timer = 1)
       => state' = "GAME_OVER" /\ game' = game
    /\ state = "GAME_OVER"
       => \/ game' = game
          \/ state' = "MENU" /\ game'.score = [team \in 0 .. 1 |-> 0]

\* C8: in PLAY no score exceeds 9; once a team has 9 the match is in the
\* freeze of that goal, not reset, and at score_timer 1 the program goes to
\* GAME_OVER without calling Game.update; the game is not updated again
\* before a new one replaces it.
C8_MatchEnds == []C8_Play /\ [][C8_End]_vars
\* the match is over, won by team 1
C8_Witness == state = "GAME_OVER" /\ game.score[1] = WIN_SCORE /\ frame > 0

\* C9: each team's active_control_player is a player of the roster, of that
\* team.
C9_Active ==
    \A team \in 0 .. 1 :
       /\ game.acp[team] \in Roster
       /\ game.acp[team] \in DOMAIN game.players
       /\ TeamOf(game.acp[team]) = team
\* a kick at no target gave the control to another player
C9_Witness ==
    /\ ev.kicker # None /\ ev.target = None
    /\ game.acp[TeamOf(ev.kicker)] # ev.kicker

\* the tick in the order of Game.update: score timer and goal, roles,
\* players, ball, switching, camera
TickInOrder(g, kb, ks, offset) ==
    CameraEase(GameSwitch(BallUpdate(PlayersUpdate(GameRoles(
        GameScore(Tick(g, kb, ks), offset))))))

C11_OtherTeam ==
    call.fn = "targetable" /\ TeamOf(call.target) # TeamOf(call.source)
    => ~call.result
\* an entity of the other team that is in range, ahead of the source of a
\* team with controls, and not targetable
C11_Witness ==
    /\ call.fn = "targetable"
    /\ TeamOf(call.target) # TeamOf(call.source)
    /\ call.human[TeamOf(call.source)]
    /\ VPos(call.players, call.target) # VPos(call.players, call.source)
    /\ ShorterThan(VSub(VPos(call.players, call.target),
                        VPos(call.players, call.source)), TARGET_RANGE)
    /\ Dot(safe_normalise(VSub(VPos(call.players, call.target),
                               VPos(call.players, call.source)))[1],
           angle_to_vec(call.players[call.source].dir)) > AHEAD_DOT
    /\ ~call.result

\* the ticks the velocity vel stays above 0.25 pixels a tick under drag
RECURSIVE Decay(_)
Decay(vel) == IF 4 * vel > SCALE THEN 1 + Decay(Quot(vel * DRAG_PCT, 100)) ELSE 0
StepsBounded ==
    call.fn = "steps"
    => /\ call.steps \in 0 .. Decay(KICK_STRENGTH)
       /\ call.returned
            => /\ call.arg = 0 => call.steps = 0
               /\ call.steps = steps(call.arg)

\* C12: steps(distance) returns for every distance >= 0; its result is a
\* natural number, 0 for distance 0, and at most the number of ticks the
\* kick velocity stays above 0.25 under drag, however large the distance.
C12_Steps ==
    /\ []StepsBounded
    /\ [][call.fn = "steps" /\ call'.fn = "steps" /\ ~call'.returned
          => call'.steps = call.steps + 1]_vars
    /\ (call.fn = "steps") ~> (call.fn = "steps" /\ call.returned)
\* steps returned because the velocity ran out before the distance
C12_Witness ==
    /\ call.fn = "steps" /\ call.returned
    /\ call.distance > 0
    /\ call.steps = Decay(KICK_STRENGTH)

\* the times l must be halved, rounding up, to be r or less
RECURSIVE Halvings(_, _)
Halvings(l, r) == IF l <= r THEN 0 ELSE 1 + Halvings((l + 1) \div 2, r)
\* drag halves a speed within 35 ticks (0.98^35 < 1/2), and the loop goes on
\* only above 0.5 pixels a tick
InterceptBound(v) == 35 * Halvings(Abs(v[1]) + Abs(v[2]), SCALE \div 2)
InterceptBounded ==
    call.fn = "intercept"
    => /\ call.frame \in 0 .. InterceptBound(call.ball_vel)
       /\ call.returned /\ Abs(call.ball_vel[1]) <= KICK_STRENGTH
                        /\ Abs(call.ball_vel[2]) <= KICK_STRENGTH
            => call.frame = InterceptFrame(call.vpos,
                                Path(<<HALF_LEVEL_W, HALF_LEVEL_H,
                                       call.ball_vel[1], call.ball_vel[2]>>))

\* C13: the interception loop of Player.update ends after a number of
\* iterations bounded by the initial velocity of the ball alone, wherever
\* the ball and the player are.
C13_Intercept ==
    /\ []InterceptBounded
    /\ [][call.fn = "intercept" /\ call'.fn = "intercept" /\ ~call'.returned
          => call'.frame = call.frame + 1]_vars
    /\ (call.fn = "intercept") ~> (call.fn = "intercept" /\ call.returned)
\* the loop ended because the fastest ball got too slow, out of the
\* player's reach
C13_Witness ==
    /\ call.fn = "intercept" /\ call.returned
    /\ Abs(call.ball_vel[1]) = Doubled(KICK_STRENGTH, MaxSpeed)
    /\ call.frame > MaxPath
    /\ LongerThan(VSub(call.target, call.vpos),
                  PLAYER_INTERCEPT_BALL_SPEED * call.frame + DRIBBLE_DIST_X)

\* the ball on which Ball.update of the coming tick begins: a new ball when
\* the tick resets the match
BallBefore == IF ev'.reset THEN NewBall ELSE game.ball
\* ball_physics bounces a ball at pos with velocity vel off the bounds
Bounces(pos, vel, bounds) == pos + vel < bounds[1] \/ pos + vel > bounds[2]
\* the velocity vel after drag, as a magnitude
Dragged(vel) == Quot(Abs(vel) * DRAG_PCT, 100)

\* C14: in a tick in which the ball is free when Ball.update begins and is
\* not kicked, the magnitude of each velocity component that does not bounce
\* is afterwards 0.98 times what it was: drag is applied once per axis.
C14_Drag ==
    [][Ticked /\ crash' = "none" /\ BallBefore.owner = None /\ ev'.kicker = None
       => /\ ~Bounces(BallBefore.x, BallBefore.vx,
                      IF Abs(BallBefore.y - HALF_LEVEL_H) > HALF_PITCH_H
                      THEN GOAL_BOUNDS_X ELSE PITCH_BOUNDS_X)
               => Abs(game'.ball.vx) = Dragged(BallBefore.vx)
          /\ ~Bounces(BallBefore.y, BallBefore.vy,
                      IF Abs(BallBefore.x - HALF_LEVEL_W) < HALF_GOAL_W
                      THEN GOAL_BOUNDS_Y ELSE PITCH_BOUNDS_Y)
               => Abs(game'.ball.vy) = Dragged(BallBefore.vy)]_vars
\* the second tick end after a kick, with the ball still free and rolling
\* along both axes
C14_Witness ==
    /\ game.ball.owner = None /\ ev.acquired = <<>> /\ ev.kicker = None
    /\ \E p \in Roster : holdoff[p] = [why |-> "kick", ago |-> 1]
    /\ game.ball.vx # 0 /\ game.ball.vy # 0
    /\ Abs(game.ball.vx) < KICK_STRENGTH /\ Abs(game.ball.vy) < KICK_STRENGTH

\* C15 as stated: cost(pos, team) divides by zero for no position inside
\* the level, be it where a player of the other team stands or at the
\* entrance of the team's own goal.
C15_Defined == call.fn = "cost" => call.err = "none"

\* the players of the game at the end of the coming tick
After(p) == game'.players[p]
LeadsOf(lead) == {p \in Roster : After(p).lead = lead}
\* C16: the roles of a tick are those its own role assignment gave.  When
\* the ball had no owner then, every player has lead None and marks its
\* peer; when it had one, at most one player has LEAD_DISTANCE_1, at most
\* one has LEAD_DISTANCE_2 (none unless second_lead_enabled), there is no
\* other lead, and every player with a lead is of the other team than the
\* owner.
C16_Roles ==
    [][Ticked /\ crash' = "none"
       => IF BallBefore.owner = None
          THEN \A p \in Roster : After(p).lead = None /\ After(p).mark = Peer(p)
          ELSE /\ Cardinality(LeadsOf(LEAD_DISTANCE_1)) <= 1
               /\ Cardinality(LeadsOf(LEAD_DISTANCE_2))
                    <= (IF Difficulty(game.difficulty).second_lead_enabled THEN 1 ELSE 0)
               /\ \A p \in Roster :
                     After(p).lead # None
                     => /\ After(p).lead \in {LEAD_DISTANCE_1, LEAD_DISTANCE_2}
                        /\ TeamOf(p) # TeamOf(BallBefore.owner)]_vars
\* the tick after a kick: the ball was free at role assignment, and the
\* leads of the tick before are gone
C16_Witness ==
    /\ \E p \in Roster : holdoff[p] = [why |-> "kick", ago |-> 1]
    /\ ev.acquired = <<>> /\ ~ev.reset /\ state = "PLAY"
    /\ \A p \in Roster : game.players[p].lead = None /\ game.players[p].mark = Peer(p)

\* C17 as stated: with the ball owned, no player is given a lead that is of
\* the owner's team, or has a timer above 0, or marks a goal, or is the
\* active player of a team with controls; whichever team owns the ball.
C17_Chasers ==
    [][Ticked /\ crash' = "none" /\ BallBefore.owner # None
       => \A p \in Roster :
             After(p).lead # None
             => /\ TeamOf(p) # TeamOf(game.ball.owner)
                /\ game.players[p].timer <= 0
                /\ ~IsGoal(After(p).mark)
                /\ ~(game.human[TeamOf(p)] /\ game.acp[TeamOf(p)] = p)]_vars

\* p keeps goal in the coming tick: of the players of the other team than
\* the owner o, it was nearest o's target goal at role assignment
KeepsGoal(p, o) ==
    /\ TeamOf(p) # TeamOf(o)
    /\ \A q \in Roster :
          TeamOf(q) # TeamOf(o)
          => DistSq(VPos(game.players, p), GoalPos(TeamOf(o)))
             <= DistSq(VPos(game.players, q), GoalPos(TeamOf(o)))
\* C18: with the ball owned and a goalkeeper enabled, exactly one player
\* marks a goal: the player of the other team nearest the owner's target
\* goal, which it marks; the owner's peer marks the goalkeeper's peer,
\* unless it keeps goal itself; every other player marks its peer.  With no
\* owner or no goalkeeper enabled, no player marks a goal.
C18_Goalie ==
    [][Ticked /\ crash' = "none"
       => IF BallBefore.owner # None /\ Difficulty(game.difficulty).goalie_enabled
          THEN \E k \in Roster :
                  /\ KeepsGoal(k, game.ball.owner)
                  /\ After(k).mark = GoalOf(TeamOf(game.ball.owner))
                  /\ \A p \in Roster \ {k} :
                        After(p).mark = IF p = Peer(game.ball.owner)
                                        THEN Peer(k) ELSE Peer(p)
          ELSE \A p \in Roster : ~IsGoal(After(p).mark)]_vars
\* a goalkeeper that is not the owner's peer, whose peer the owner's peer
\* marks
C18_Witness ==
    \E k, o \in Roster :
       /\ game.players[k].mark = GoalOf(TeamOf(o))
       /\ Peer(o) # k
       /\ TeamOf(o) # TeamOf(k)
       /\ game.players[Peer(o)].mark = Peer(k)
       /\ game.ball.owner = o /\ ev.acquired = <<>>

\* C19 as stated: once a tick has made some player the owner of the ball,
\* kickoff_player is None after the following tick, whatever became of the
\* ball in the meantime, and stays None until the next reset.
C19_KickOffEnds ==
    /\ [][Ticked /\ crash' = "none" /\ ev.acquired # <<>> /\ ~ev'.reset
          => game'.kickoff_player = None]_vars
    /\ [][Ticked /\ game.kickoff_player = None /\ ~ev'.reset
          => game'.kickoff_player = None]_vars

\* the owner of the ball when the last tick decided about the kick
Decider == IF ev.kicker # None THEN ev.kicker ELSE game.ball.owner
\* the ball's timer has run out, and the cost at the nearest targetable
\* entity of o's team is below the cost where o stands
CostFavoursKick(o) ==
    /\ game.ball.timer <= 0
    /\ \E target \in Roster \cup {GoalOf(0), GoalOf(1)} :
          /\ NearestTargetable(target, o)
          /\ cost(VPos(game.players, target), TeamOf(o), 0, game.players)
             < cost(VPos(game.players, o), TeamOf(o), 0, game.players)
ComputerDecides ==
    crash = "none" /\ Decider # None /\ ~game.human[TeamOf(Decider)]
    => /\ ev.kicker # None <=> CostFavoursKick(Decider)
       /\ ev.kicker # None => ev.target # None /\ game.ball.timer <= 0

\* C20: the owner of a team without controls kicks in a tick if and only if
\* the ball's timer is 0 or below, an entity of its team is targetable, and
\* the cost at the nearest of them is below the cost at the owner; it never
\* kicks without a target; and as an acquisition sets the ball's timer to
\* difficulty.holdoff_timer and every tick without one takes 1 off, it does
\* not kick before holdoff_timer ticks have passed since the acquisition.
C20_ComputerKick ==
    /\ []ComputerDecides
    /\ [][Ticked /\ crash' = "none" /\ ~ev'.reset
          => game'.ball.timer = IF ev'.acquired # <<>>
                                THEN Difficulty(game.difficulty).holdoff_timer
                                ELSE game.ball.timer - 1]_vars
\* a computer's kick, as the ball's timer ran out
C20_Witness ==
    /\ ev.kicker # None /\ ~game.human[TeamOf(ev.kicker)]
    /\ ev.target # None
    /\ game.ball.timer = 0

\* the tick of the coming step as its players' updates begin: after the
\* score timer, the reset when there is one, and the role assignment
RolesOf ==
    LET t == GameRoles(GameScore(Tick(game, keyboard, key_status), Offsets(rng)))
    IN [t EXCEPT !.path = IF t.g.ball.owner = None
                          THEN Path(<<t.g.ball.x, t.g.ball.y, t.g.ball.vx, t.g.ball.vy>>)
                          ELSE <<>>]
\* the direction player i wants to face: that of its way to its target, or
\* of the ball when it stands on its target (lines 652 and 666)
TargetDir(t, i) ==
    IF PlayerTarget(t, i)[1] = <<t.g.players[i].x, t.g.players[i].y>>
    THEN vec_to_angle(<<t.g.ball.x - t.g.players[i].x, t.g.ball.y - t.g.players[i].y>>)
    ELSE vec_to_angle(VSub(PlayerTarget(t, i)[1], <<t.g.players[i].x, t.g.players[i].y>>))
\* per player from roster index i on, <<facing, desired facing>> as its
\* update begins
RECURSIVE Facings(_, _)
Facings(t, i) ==
    IF i = NUM_PLAYERS THEN <<>>
    ELSE << <<t.g.players[i].dir, TargetDir(t, i)>> >> \o Facings(PlayerUpdate(t, i), i + 1)
\* one compass step from current toward desired, the half turn clockwise
CompassStep(current, desired) ==
    IF (desired - current) % 8 = 0 THEN current
    ELSE IF (desired - current) % 8 <= 4 THEN (current + 1) % 8
    ELSE (current - 1) % 8
Turned(facings) ==
    \A p \in Roster :
       /\ facings[p + 1][2] \in 0 .. 7
       /\ After(p).dir = CompassStep(facings[p + 1][1], facings[p + 1][2])

\* C21: every player's facing is an integer in 0..7, and a tick turns it by
\* at most one compass step: not at all when it is the desired facing, one
\* step clockwise when the desired facing is 1 to 4 steps clockwise of it
\* (the half turn included), one step anticlockwise when it is 5 to 7.
C21_Facing ==
    /\ [](\A p \in Roster : game.players[p].dir \in 0 .. 7)
    /\ [][Ticked /\ crash' = "none" => Turned(Facings(RolesOf, 0))]_vars
\* the end of the tick of a reset: a player that waits for the kick-off where
\* the reset put it, facing up, with the ball straight below it, has turned
\* clockwise
C21_Witness ==
    /\ frame > 0 /\ ev.reset /\ game.ball.owner = None
    /\ \E p \in Roster :
          /\ p # game.kickoff_player
          /\ game.players[p].x = game.players[p].hx
          /\ vec_to_angle(<<game.ball.x - game.players[p].x,
                            game.ball.y - game.players[p].y>>) = 4
          /\ game.players[p].dir = 1

\* player i chases the owner in tick t: it has a lead, a player of the other
\* team owns the ball, and no human steers it
Chases(t, i) ==
    /\ t.g.ball.owner # None /\ TeamOf(t.g.ball.owner) # TeamOf(i)
    /\ t.g.players[i].lead # None
    /\ ~HumanSteers(t, i)
\* where player i is after a move toward its lead target at the speed
\* LEAD_PLAYER_BASE_SPEED + speed_boost
BoostedLead(t, i) ==
    PlayerMove(t.g.players[i],
               << LeadTarget(t.g.players[i], t.g.players[t.g.ball.owner],
                             t.g.human, 0, 0)[1],
                  LEAD_PLAYER_BASE_SPEED + Difficulty(t.g.difficulty).speed_boost >>,
               t.g.ball)
\* the chasers from roster index i on move as BoostedLead says
RECURSIVE ChasersBoosted(_, _)
ChasersBoosted(t, i) ==
    IF i = NUM_PLAYERS THEN TRUE
    ELSE IF Chases(t, i) /\ <<After(i).x, After(i).y>>
                            # <<BoostedLead(t, i).x, BoostedLead(t, i).y>>
    THEN FALSE
    ELSE ChasersBoosted(PlayerUpdate(t, i), i + 1)

\* C22 as stated, for the chasers it names: in a match of one human player
\* (team 0), while a player of team 0 owns the ball, a player of team 1 with
\* a lead moves toward its lead target at LEAD_PLAYER_BASE_SPEED plus the
\* difficulty's speed_boost.
C22_LeadSpeed ==
    [][Ticked /\ crash' = "none" /\ game.human[0] /\ ~game.human[1]
       /\ RolesOf.g.ball.owner # None /\ TeamOf(RolesOf.g.ball.owner) = 0
       => ChasersBoosted(RolesOf, 0)]_vars

\* the eased dribble position of the coming tick: half way from the ball to
\* the point ahead of its owner o, where o stands after its own update
Eased(o) ==
    << avg(game.ball.x, After(o).x + Quot(DRIBBLE_DIST_X * sin(After(o).dir), UNIT)),
       avg(game.ball.y, After(o).y - Quot(DRIBBLE_DIST_Y * cos(After(o).dir), UNIT)) >>
\* the ball went free in the coming tick: it is free at its end, or the
\* first player to take it in the acquisition pass took a free ball
WentFree ==
    IF ev'.acquired = <<>> THEN game'.ball.owner = None
    ELSE ev'.acquired[1][1] = None
\* the owner o lost the ball in the coming tick
LostBy(o) ==
    /\ ev'.lost = o
    /\ BallPos(game') = BallPos(game)
    /\ After(o).timer = HOLDOFF_LOST
    /\ WentFree
    /\ ev'.kicker = None
       => <<game'.ball.vx, game'.ball.vy>>
          = VScale(angle_to_vec(After(o).dir), 3 * SCALE)

\* C23: in a tick that begins with the ball owned, the ball moves to the
\* eased dribble position when that is inside the pitch rectangle or a goal
\* rectangle, and nowhere else; when it is outside, the ball stays where it
\* is, the owner's timer is set to 60, the ball's velocity is 3 times the
\* owner's facing vector (until someone kicks it), and the ball goes free in
\* that tick.
C23_Dribble ==
    [][Ticked /\ crash' = "none" /\ BallBefore.owner # None
       => /\ on_pitch(game'.ball.x, game'.ball.y) \/ BallPos(game') = BallPos(game)
          /\ IF on_pitch(Eased(game.ball.owner)[1], Eased(game.ball.owner)[2])
             THEN BallPos(game') = Eased(game.ball.owner) /\ ev'.lost = None
             ELSE LostBy(game.ball.owner)]_vars
\* the end of a tick in which the owner dribbled the ball off the pitch, and
\* nobody took it
C23_Witness ==
    /\ ev.lost # None /\ ev.acquired = <<>>
    /\ game.ball.owner = None
    /\ game.players[ev.lost].timer = HOLDOFF_LOST
    /\ <<game.ball.vx, game.ball.vy>> # <<0, 0>>

\* the keys that were down during the last frame
KeysDown == Held(Scripts[script].keys, 1, frame - 1)
\* the keys that move the active player of a team
MoveKeys(team) ==
    {Controls(team).left, Controls(team).right, Controls(team).up, Controls(team).down}
\* C24: before the kick-off and while the ball has no owner, every player but
\* the kick-off player keeps its y coordinate and comes no farther from its
\* home x, whatever keys are down: the active player of a team with controls
\* that does not kick off ignores them.
C24_PreKickoff ==
    [][Ticked /\ crash' = "none" /\ (game.kickoff_player # None \/ game.score_timer = 1)
       => \A before \in {RolesOf.g} :
             before.kickoff_player # None /\ before.ball.owner = None
             => \A p \in Roster \ {before.kickoff_player} :
                   /\ After(p).y = before.players[p].y
                   /\ Abs(After(p).x - After(p).hx)
                        <= Abs(before.players[p].x - before.players[p].hx)
                   /\ Abs(After(p).x - before.players[p].x) <= PLAYER_DEFAULT_SPEED]_vars
\* the end of a tick before the kick-off, with a move key of a team down whose
\* active player does not kick off
C24_Witness ==
    /\ frame > 0 /\ state = "PLAY"
    /\ game.kickoff_player # None /\ game.ball.owner = None /\ ev.acquired = <<>>
    /\ \E team \in 0 .. 1 :
          /\ game.human[team]
          /\ game.acp[team] # game.kickoff_player
          /\ KeysDown \cap MoveKeys(team) # {}

\* in game g, p is upfield of the owner: between the owner and the goal the
\* owner's team defends (team 0 defends the goal at the bottom)
UpfieldOfOwner(g, p) ==
    IF TeamOf(g.ball.owner) = 0 THEN g.players[p].y > g.players[g.ball.owner].y
    ELSE g.players[p].y < g.players[g.ball.owner].y
\* the players the claim gives the two leads, from the eligible chasers l
\* of game g, nearest the owner first: <<first, second>>
ClaimedLeads(g, l) ==
    LET up == SelectSeq(l, LAMBDA p : UpfieldOfOwner(g, p))
        down == SelectSeq(l, LAMBDA p : ~UpfieldOfOwner(g, p))
    IN << IF up # <<>> THEN up[1] ELSE down[1],
          IF up # <<>> /\ down # <<>> THEN down[1]
          ELSE IF up = <<>> THEN down[2] ELSE up[2] >>
\* the leads at the end of the coming tick are those of the pair c
LeadsAsClaimed(g, c) ==
    \A p \in Roster :
       After(p).lead = IF p = c[1] THEN LEAD_DISTANCE_1
                       ELSE IF p = c[2] /\ Difficulty(g.difficulty).second_lead_enabled
                       THEN LEAD_DISTANCE_2
                       ELSE None

\* C25: with the ball owned at role assignment, LEAD_DISTANCE_1 goes to the
\* nearest upfield chaser, or the nearest downfield one when none is
\* upfield; with a second chaser enabled LEAD_DISTANCE_2 goes to the nearest
\* downfield chaser when there are chasers on both sides, else to the second
\* nearest of the one side; and as long as there are as many eligible
\* chasers as leads, the assignment does not run out of players.
C25_Leads ==
    [][Ticked /\ BallBefore.owner # None
       => \A g \in {RolesOf.g} : \A l \in {Chasers(g)} :
             /\ Len(l) >= (IF Difficulty(g.difficulty).second_lead_enabled THEN 2 ELSE 1)
                => crash' # "IndexError"
             /\ crash' = "none"
                => \A c \in {ClaimedLeads(g, l)} : LeadsAsClaimed(g, c)]_vars
\* the end of a tick in play with no chaser upfield of the owner: both leads
\* went to players downfield
C25_Witness ==
    /\ state = "PLAY" /\ game.ball.owner # None
    /\ ev.acquired = <<>> /\ ~ev.reset
    /\ \E p, q \in Roster :
          /\ game.players[p].lead = LEAD_DISTANCE_1
          /\ game.players[q].lead = LEAD_DISTANCE_2
          /\ ~UpfieldOfOwner(game, p) /\ ~UpfieldOfOwner(game, q)
          /\ \A r \in Roster : Eligible(game, r) => ~UpfieldOfOwner(game, r)

\* orders to update the roster in: roster order, the reverse, team by team
RosterOrder == [k \in 1 .. NUM_PLAYERS |-> k - 1]
ReverseOrder == [k \in 1 .. NUM_PLAYERS |-> NUM_PLAYERS - k]
TeamOrder == [k \in 1 .. NUM_PLAYERS |-> IF k <= 7 THEN 2 * (k - 1) ELSE 2 * (k - 8) + 1]
Orders == {RosterOrder, ReverseOrder, TeamOrder}
\* the players are updated one after the other, from the k-th of order on
RECURSIVE PlayersInOrder(_, _, _)
PlayersInOrder(t, order, k) ==
    IF k > Len(order) \/ t.err # "none" THEN t
    ELSE PlayersInOrder(PlayerUpdate(t, order[k]), order, k + 1)
\* the coming tick from the role assignment t on, with the players updated
\* in that order
TickWithPlayersIn(t, order) ==
    CameraEase(GameSwitch(BallUpdate(PlayersInOrder(t, order, 1))))
\* the tick u leaves the players and the ball's owner as the coming tick does
SamePlayers(u) ==
    /\ u.err = "none"
    /\ \A p \in Roster :
          <<u.g.players[p].x, u.g.players[p].y, u.g.players[p].dir>>
          = <<After(p).x, After(p).y, After(p).dir>>
    /\ u.g.ball.owner = game'.ball.owner

\* C26 as stated: updating the roster in any other order yields the same
\* positions, facings and ownership after the tick.
C26_Original ==
    [][Ticked /\ crash' = "none"
       => \A t \in {RolesOf} :
             \A order \in Orders : SamePlayers(TickWithPlayersIn(t, order))]_vars

\* C26: the tick is the one that updates the players one after the other in
\* roster order, each reading the players before it as already moved; only
\* while nobody owns the ball, when a player reads no other player, does
\* every other order yield the same game.
C26_Order ==
    [][Ticked /\ crash' = "none"
       => \A t \in {RolesOf} :
             /\ TickWithPlayersIn(t, RosterOrder).g = game'
             /\ t.g.ball.owner = None
                => \A order \in Orders \ {RosterOrder} :
                      TickWithPlayersIn(t, order).g = game']_vars
\* the end of a tick after the kick-off in which nobody owned the ball, with
\* players of both teams after it
C26_Witness ==
    /\ state = "PLAY" /\ frame > 0
    /\ game.kickoff_player = None /\ game.ball.owner = None
    /\ ev.acquired = <<>> /\ ev.lost = None /\ ev.kicker = None /\ ~ev.reset
    /\ \E p, q \in Roster :
          /\ TeamOf(p) # TeamOf(q)
          /\ PlayerActive(game.players[p], game.ball)
          /\ PlayerActive(game.players[q], game.ball)

\* C27 as stated: the ball is never beyond a goal line while laterally
\* outside the goal mouth.
C27_BallInside ==
    ~(/\ Abs(game.ball.y - HALF_LEVEL_H) > HALF_PITCH_H
      /\ Abs(game.ball.x - HALF_LEVEL_W) > HALF_GOAL_W)

\* C29: whenever the ball is owned at the end of a tick, its owner is the
\* active control player of its team; the manual switch of that tick took
\* control from no owner.
C29_OwnerControls ==
    game.ball.owner # None => game.acp[TeamOf(game.ball.owner)] = game.ball.owner
\* the end of a tick in play in which a team's shoot key was down, so that
\* the manual switch read it, with the ball owned
C29_Witness ==
    /\ state = "PLAY" /\ frame > 0
    /\ game.ball.owner # None
    /\ \E team \in 0 .. 1 : game.human[team] /\ Controls(team).shoot \in KeysDown

\* C30: every player stands where allow_movement lets it stand: inside the
\* level, and strictly between the goal lines while laterally within the
\* goal zone.
C30_Allowed ==
    \A p \in Roster : allow_movement(game.players[p].x, game.players[p].y)
\* the end of a tick in which a steered player, walking up and to the left,
\* stepped sideways into the goal zone at the top goal line and was refused
\* the step up
C30_Witness ==
    /\ state = "PLAY" /\ frame > 0
    /\ \E team \in 0 .. 1 :
          /\ game.human[team]
          /\ {Controls(team).up, Controls(team).left} \subseteq KeysDown
          /\ \E self \in {game.players[game.acp[team]]} :
                /\ Abs(self.x - HALF_LEVEL_W) < HALF_GOAL_W + 20 * SCALE
                /\ Abs(self.x + 46 - HALF_LEVEL_W) >= HALF_GOAL_W + 20 * SCALE
                /\ ~allow_movement(self.x, self.y - 46)
                /\ allow_movement(self.x + 46, self.y - 46)

\* C28 as stated: whenever the ball is owned at role assignment there are as
\* many eligible chasers as the difficulty gives leads, and the assignment
\* of the leads does not index past the end of their list.
C28_Chasers ==
    [][Ticked /\ BallBefore.owner # None
       => /\ crash' # "IndexError"
          /\ Len(Chasers(RolesOf.g))
               >= (IF Difficulty(game.difficulty).second_lead_enabled THEN 2 ELSE 1)]_vars
====
